------------------------- MODULE MCSwapVerification -------------------------
(* Small instances of SwapVerification: which swaps the position sends. *)
EXTENDS SwapVerification, TLC

CONSTANTS entry, add, partial, partial2, exit, exit2

EntryAndAdd == entry :> "entry" @@ add :> "add"
PartialAndExit == partial :> "partial" @@ exit :> "exit"
OneExit == exit :> "exit"
TwoPartialsAndExit == partial :> "partial" @@ partial2 :> "partial" @@ exit :> "exit"
AddAndTwoExits == add :> "add" @@ exit :> "exit" @@ exit2 :> "exit"

=============================================================================
