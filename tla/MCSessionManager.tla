-------------------------- MODULE MCSessionManager --------------------------
(* Instances of SessionManager: three sessions, two of them new, one new    *)
(* document, one connection, two clients that are asked.                    *)
EXTENDS SessionManager

CONSTANTS work, home, text, db

MCSessions    == {Default, work, home}
MCTexts       == {text}
MCConnections == {db}
=============================================================================
