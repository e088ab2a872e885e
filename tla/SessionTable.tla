---------------------------- MODULE SessionTable ----------------------------
(* What the I/O service promises to the application that is notified by it    *)
(* (INetworkReceiver, MGServerLib/Asios.h): a table of connections by uid.    *)
(* A connection is opened at most once, under a uid no open connection has,   *)
(* closed under that same uid, and heard of no more once it ended.            *)
CONSTANTS Connections, Keys

VARIABLES sessions,   \* pairs of a uid and the connection it stands for
          ended       \* connections that were closed, or never came to be

vars == <<sessions, ended>>

Init == sessions = {} /\ ended = {}

Open(k, s) == /\ s \notin ended
              /\ \A p \in sessions : p[1] # k /\ p[2] # s
              /\ sessions' = sessions \cup {<<k, s>>}
              /\ UNCHANGED ended

Close(k, s) == /\ <<k, s>> \in sessions
               /\ sessions' = sessions \ {<<k, s>>}
               /\ ended' = ended \cup {s}

Abandon(s) == /\ \A p \in sessions : p[2] # s
              /\ ended' = ended \cup {s}
              /\ UNCHANGED sessions

Next == \E s \in Connections : Abandon(s) \/ \E k \in Keys : Open(k, s) \/ Close(k, s)

Spec == Init /\ [][Next]_vars
=============================================================================
