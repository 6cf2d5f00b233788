--------------------------- MODULE AddressLedger ---------------------------
(***************************************************************************)
(* The life of an address, as the bot promises it to whoever pays the      *)
(* bill: it is obtained once, and then returned to a user, released, or    *)
(* lost with a failure that somebody was told of. No address changes hands *)
(* silently, comes back after its release, or is taken from its user.      *)
(*                                                                         *)
(* The engine (Roller) and the provider adapters (Adapters) both implement *)
(* it: the engine for whatever the provider answers, the adapters for      *)
(* whatever their callers do.                                              *)
(***************************************************************************)
CONSTANT Resources    \* the addresses the provider can hand out

VARIABLE fate         \* what has become of each address

Fates == {"free",     \* never handed out
          "held",     \* in the hand of a run
          "kept",     \* returned to a user as a match
          "released", \* gone from the provider
          "lost"}     \* billed, and only an error or a crash tells of it

Init == fate = [x \in Resources |-> "free"]

Obtained == <<"free", "held">>
Kept == <<"held", "kept">>
Released == <<"held", "released">>

\* Its release failed, or the process stopped before it.
Lost == <<"held", "lost">>

\* A creation that its caller saw fail.
CreatedUnheard == <<"free", "lost">>

Moves == {Obtained, Kept, Released, Lost, CreatedUnheard}

\* Each address makes a move of its own or none; a crash loses several.
Next ==
  /\ fate' \in [Resources -> Fates]
  /\ \A x \in Resources : fate'[x] = fate[x] \/ <<fate[x], fate'[x]>> \in Moves

Spec == Init /\ [][Next]_fate

(* The final fates: a user's address stays the user's, and an address that *)
(* was released does not come back.                                        *)
FinalFates ==
  [][\A x \in Resources : fate[x] \in {"kept", "released"} => fate'[x] = fate[x]]_fate
=============================================================================
