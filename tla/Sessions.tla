------------------------------ MODULE Sessions ------------------------------
(***************************************************************************)
(* The session map of the stratum server (pool/session.go) and the part of *)
(* a stratumClient that decides its key (pool/responses.go).  A client has *)
(* the empty session ID until it subscribes; every mining.subscribe gives  *)
(* it a fresh UUID, here the pair of the client and the number of its      *)
(* subscriptions.                                                          *)
(***************************************************************************)
EXTENDS Integers, FiniteSets

CONSTANTS
  Clients,        \* connections, each accepted at most once
  NoClient,       \* not a client: the value of an absent key
  MaxSubscribes   \* bound: mining.subscribe requests of a client

ASSUME SessionsAssumption ==
  /\ NoClient \notin Clients
  /\ MaxSubscribes \in Nat

VARIABLES
  subs,           \* subscriptions so far: sessionID is "" while it is 0
  authorized,     \* clients whose login was accepted
  sessions,       \* the map, total on the keys
  improper        \* history: clients that authorized before they subscribed
                  \* or subscribed again afterwards

sessionVars == <<subs, authorized, sessions, improper>>

(* The empty ID is the same key for every client.                           *)
EmptyID == <<NoClient, 0>>
IDs == {EmptyID} \cup (Clients \X (1..MaxSubscribes))

sessionID_Empty(c) == EmptyID
sessionID(c) == IF subs[c] = 0 THEN EmptyID ELSE <<c, subs[c]>>

SessionsInit ==
  /\ subs = [c \in Clients |-> 0]
  /\ authorized = {}
  /\ sessions = [i \in IDs |-> NoClient]
  /\ improper = {}

(* miningSubscribe: a new session ID; an entry under the old one stays.     *)
miningSubscribe(c) ==
  /\ subs[c] < MaxSubscribes
  /\ subs' = [subs EXCEPT ![c] = @ + 1]
  /\ improper' = IF c \in authorized THEN improper \cup {c} ELSE improper
  /\ UNCHANGED <<authorized, sessions>>

(* miningAuthorize with a valid login, up to addSession.                    *)
addSession(c) ==
  /\ authorized' = authorized \cup {c}
  /\ sessions' = [sessions EXCEPT ![sessionID(c)] = c]
  /\ improper' = IF subs[c] = 0 THEN improper \cup {c} ELSE improper
  /\ UNCHANGED subs

removed(c) == [sessions EXCEPT ![sessionID(c)] = NoClient]

removeSession(c) ==
  /\ sessions' = removed(c)
  /\ UNCHANGED <<subs, authorized, improper>>

SessionsTypeOK ==
  /\ subs \in [Clients -> 0..MaxSubscribes]
  /\ authorized \subseteq Clients
  /\ sessions \in [IDs -> Clients \cup {NoClient}]
  /\ improper \subseteq Clients
=============================================================================
