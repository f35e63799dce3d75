------------------------------ MODULE Checkout ------------------------------
(* What the hook and the makepkg guard share: the package directories yay    *)
(* has checked out and the approval receipts of the transaction              *)
(* (aur_codex_guard/receipts.py).  Anything running as the user may change a *)
(* checkout at any moment.                                                   *)
(*                                                                           *)
(* A package directory is a function from path names to entries; the paths   *)
(* under .git and the like, which the scanner ignores, are left out.  A      *)
(* Version is what a receipt records of a regular file: its content          *)
(* (standing for its hash) and its mode.  A FIFO is an entry of its own,     *)
(* because opening it may block.  Opaque stands for everything else the      *)
(* scanner refuses to review: symbolic links, sockets and devices, files     *)
(* that are unreadable, binary, undecodable or beyond the size limits.  A    *)
(* package directory's identity is its device and inode.                     *)
EXTENDS Naturals, Sequences, FiniteSets

CONSTANTS
  Roots,     \* package directories of the transaction
  Files,     \* path names in a directory
  Pkgbuild,  \* the path name PKGBUILD
  Contents, Modes,
  Absent,    \* no such file
  Folder,    \* a subdirectory
  Fifo,      \* a named pipe
  Opaque,    \* another file that cannot be reviewed
  NoReceipt, \* no receipt file
  MaxEdits   \* bound: changes made to the checkouts from outside

Version == [content : Contents, mode : Modes]
Entry == Version \cup {Absent, Folder, Fifo, Opaque}
Receipt == [identity : Nat, files : [Files -> Version \cup {Absent}]]

ASSUME CheckoutAssumption ==
  /\ Roots # {} /\ Pkgbuild \in Files
  /\ Version \cap {Absent, Folder, Fifo, Opaque} = {}
  /\ Absent # Folder /\ Absent # Fifo /\ Absent # Opaque
  /\ Folder # Fifo /\ Folder # Opaque /\ Fifo # Opaque
  /\ NoReceipt \notin Receipt
  /\ MaxEdits \in Nat

VARIABLES
  disk,      \* the entries of each directory
  identity,  \* the identity of each directory
  receipts,  \* the receipt of each directory, an authentic one if any
  written,   \* history: files changed since the guard's last checkpoint
  edits      \* bound: changes made so far
checkoutVars == <<disk, identity, receipts, written, edits>>

CheckoutTypeOK ==
  /\ disk \in [Roots -> [Files -> Entry]]
  /\ identity \in [Roots -> Nat]
  /\ receipts \in [Roots -> Receipt \cup {NoReceipt}]
  /\ written \in [Roots -> SUBSET Files]
  /\ edits \in 0 .. MaxEdits

(* Path.is_file of a path with this entry may be true.                       *)
MaybeFile(entry) == entry \notin {Absent, Folder, Fifo}

CheckoutInit ==
  /\ disk \in [Roots -> {d \in [Files -> Entry] : MaybeFile(d[Pkgbuild])}]
  /\ identity = [r \in Roots |-> 0]
  /\ receipts = [r \in Roots |-> NoReceipt]
  /\ written = [r \in Roots |-> {}]
  /\ edits = 0

(* A process other than the guard's creates, changes or removes a file: yay, *)
(* the user, or makepkg itself when pkgver() rewrites PKGBUILD.              *)
Edit(r, f) ==
  /\ edits < MaxEdits
  /\ \E e \in Entry \ {disk[r][f]} : disk' = [disk EXCEPT ![r][f] = e]
  /\ written' = [written EXCEPT ![r] = @ \cup {f}]
  /\ edits' = edits + 1
  /\ UNCHANGED <<identity, receipts>>

(* The directory is removed and another one created under its path.          *)
Replace(r) ==
  /\ edits < MaxEdits
  /\ identity' = [identity EXCEPT ![r] = @ + 1]
  /\ edits' = edits + 1
  /\ UNCHANGED <<disk, receipts, written>>

---------------------------------------------------------------------------
(* The paths a receipt vouches for.                                          *)
Covered(receipt) == {f \in Files : receipt.files[f] # Absent}

(* verify_receipt, before it looks at any file: there is a receipt, it names *)
(* this very directory and it lists at least one file.                       *)
ReceiptUsable(r) ==
  /\ receipts[r] # NoReceipt
  /\ receipts[r].identity = identity[r]
  /\ Covered(receipts[r]) # {}

(* Mutant: the mode is not compared.                                         *)
FileMatches_ContentOnly(r, f) ==
  /\ disk[r][f] \in Version
  /\ disk[r][f].content = receipts[r].files[f].content

(* _hash_regular_file_at, once the path has been opened: it is a regular     *)
(* file whose mode and content are the reviewed ones.                        *)
FileMatches(r, f) == disk[r][f] = receipts[r].files[f]
=============================================================================
