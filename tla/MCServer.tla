------------------------------- MODULE MCServer -------------------------------
(* An instance of Server for TLC.                                            *)
EXTENDS Server

CONSTANTS h1, h2

\* Every secret with a database, and none without one.
Found == {[database |-> d, secret |-> s] : d \in {TRUE}, s \in Secrets}
           \cup {[database |-> FALSE, secret |-> "proper"]}

=============================================================================
