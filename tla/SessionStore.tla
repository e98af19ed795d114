---------------------------- MODULE SessionStore ----------------------------
(***************************************************************************)
(* What sessions promise the user: each has its own contents, switching is *)
(* one step that replaces what is open by what the other session had when  *)
(* it was left, and leaving and starting the program changes nothing.      *)
(* Connections may stay open through a switch, and a start may begin with  *)
(* an empty default session.  The list of sessions and which is current    *)
(* are remembered when the program is left, so that a program that ends    *)
(* otherwise forgets changes of them.                                      *)
(* SessionManager implements this in several steps by several clients.     *)
(***************************************************************************)
CONSTANTS
  Sessions,  \* names
  Default,   \* the session that always exists
  Texts, Connections  \* what a session may contain

VARIABLES
  on,        \* the program runs
  listed, current,                  \* the sessions, and the one that is open
  listedOnDisk, currentOnDisk,      \* the same when the program was left
  saved,     \* the contents of each session when it was last saved
  open,      \* what is open
  ended      \* what the user has done with

disk == <<listedOnDisk, currentOnDisk>>
Items == Texts \union Connections
vars == <<on, listed, current, listedOnDisk, currentOnDisk, saved, open, ended>>

Init ==
  /\ ~on /\ listed = {Default} /\ current = Default
  /\ listedOnDisk = {Default} /\ currentOnDisk = Default
  /\ saved = [s \in Sessions |-> {}] /\ open = {} /\ ended = {}

Start ==
  /\ ~on /\ on' = TRUE
  /\ open' = saved[current]
  /\ UNCHANGED <<disk, listed, current, saved, ended>>

\* The contents of the default session are given up.
StartEmpty ==
  /\ ~on /\ on' = TRUE
  /\ current' = Default /\ open' = {}
  /\ ended' = ended \union saved[Default]
  /\ UNCHANGED <<disk, listed, saved>>

\* Something is opened, or closed by the user: nothing closes of itself.
Work ==
  /\ on /\ open' \in SUBSET Items
  /\ ended' \in SUBSET Items /\ ended \union (open \ open') \subseteq ended'
  /\ UNCHANGED <<disk, on, listed, current, saved>>

\* Texts may be lost, and nothing else.
Save ==
  /\ on
  /\ \E lost \in SUBSET (open \intersect Texts) :
       open' = open \ lost /\ ended' = ended \union lost
  /\ saved' = [saved EXCEPT ![current] = open']
  /\ UNCHANGED <<disk, on, listed, current>>

\* Only from a session that has been saved as it is.
Switch(s) ==
  /\ on /\ s \in listed /\ saved[current] = open
  /\ current' = s
  /\ \E left \in SUBSET (open \intersect Connections) : open' = left \union saved[s]
  /\ UNCHANGED <<disk, on, listed, saved, ended>>

\* A new session takes over what is open.
New(s) ==
  /\ on /\ s \notin listed
  /\ listed' = listed \union {s} /\ current' = s
  /\ UNCHANGED <<disk, on, saved, open, ended>>

Delete(s) ==
  /\ on /\ s \in listed \ {Default, current}
  /\ listed' = listed \ {s}
  /\ saved' = [saved EXCEPT ![s] = {}]
  /\ ended' = ended \union (saved[s] \ open)
  /\ UNCHANGED <<disk, on, current, open>>

Exit ==
  /\ on /\ saved[current] = open
  /\ on' = FALSE /\ open' = {}
  /\ listedOnDisk' = listed /\ currentOnDisk' = current
  /\ UNCHANGED <<listed, current, saved, ended>>

Crash ==
  /\ on /\ on' = FALSE
  /\ open' = {}
  /\ ended' = ended \union (open \ saved[current])
                   \union UNION {saved[s] : s \in listed \ listedOnDisk}
  /\ listed' = listedOnDisk /\ current' = currentOnDisk
  /\ UNCHANGED <<disk, saved>>

Next == \/ Start \/ StartEmpty \/ Work \/ Save \/ Exit \/ Crash
        \/ \E s \in Sessions : Switch(s) \/ New(s) \/ Delete(s)

Spec == Init /\ [][Next]_vars
=============================================================================
