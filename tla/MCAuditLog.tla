----------------------------- MODULE MCAuditLog -----------------------------
(* Up to four writers; with a limit of one event, the third event is the     *)
(* first one that can make an earlier one go.                                *)
EXTENDS AuditLog
CONSTANTS w1, w2, w3, w4
=============================================================================
