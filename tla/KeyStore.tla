------------------------------ MODULE KeyStore ------------------------------
(***************************************************************************)
(* What the clients of a hash slot may rely on, whoever serves it: one     *)
(* copy of every key, written and read in one step, also when a command    *)
(* names several keys.                                                     *)
(***************************************************************************)
CONSTANTS
  Clients,   \* connections that send commands
  Keys,      \* keys of the slot
  Values,    \* what a key may hold
  Missing    \* the key does not exist

VARIABLES
  store,     \* store[k]: value of k, or Missing
  reply      \* reply[c]: what the last command of c saw or wrote, <<>> until it is answered

Init ==
  /\ store = [k \in Keys |-> Missing]
  /\ reply = [c \in Clients |-> <<>>]

\* A client sends its next command.
Invoke(c) ==
  /\ reply' = [reply EXCEPT ![c] = <<>>]
  /\ UNCHANGED store

\* A command that writes or deletes one key.
Write(c) ==
  \E k \in Keys, v \in Values \cup {Missing} :
    /\ store' = [store EXCEPT ![k] = v]
    /\ reply' = [reply EXCEPT ![c] = [x \in {k} |-> v]]

\* A command that reads some keys together.
Read(c) ==
  \E K \in SUBSET Keys :
    /\ reply' = [reply EXCEPT ![c] = [k \in K |-> store[k]]]
    /\ UNCHANGED store

Next == \E c \in Clients : Invoke(c) \/ Write(c) \/ Read(c)

Spec == Init /\ [][Next]_<<store, reply>>
=============================================================================
