------------------------------ MODULE DNSPool ------------------------------
(***************************************************************************)
(* Discovery through DNS (dns.go): one goroutine looks up every name, for  *)
(* IPv4 and for IPv6 addresses, hands over what it found and sleeps until  *)
(* the records expire.  A node is listed while it is up.                   *)
(***************************************************************************)
EXTENDS Discovery, Sequences

CONSTANTS
    Queries,   \* the pairs of a name and a record type, in the order asked
    Answered   \* the query that lists each node

ASSUME DNSAssumption ==
    /\ Len(Queries) \in Nat
    /\ \A n \in Nodes : \E i \in 1 .. Len(Queries) : Answered[n] = Queries[i]

VARIABLES
    poll,      \* where the goroutine is
    asked,     \* queries of this round that have been made
    found,     \* the addresses they gave
    partial,   \* one of them failed
    since      \* the revision the round started at

dnsVars == <<poll, asked, found, partial, since>>

DNSInit == poll = "off" /\ asked = 0 /\ found = {} /\ partial = FALSE /\ since = 0

\* Without an address of its own or a server to ask there is no pool.
NewDNSPool ==
    /\ \/ pool' = "up" /\ poll' = "lookup" /\ since' = revision /\ UNCHANGED faults
       \/ Fault /\ pool' = "failed" /\ UNCHANGED <<poll, since>>
    /\ UNCHANGED <<cluster, revision, stop, update, picker, asked, found, partial>>

\* The addresses a server gives for a query.
lookupHost(query) == {n \in Up : Answered[n] = query}

\* One query; a failure, or no address, only leaves its addresses out.
Ask ==
    /\ poll = "lookup" /\ asked < Len(Queries)
    /\ asked' = asked + 1
    /\ \/ /\ found' = found \cup lookupHost(Queries[asked + 1])
          /\ UNCHANGED <<faults, partial>>
       \/ Fault /\ partial' = TRUE /\ UNCHANGED found
    /\ UNCHANGED <<cluster, revision, pool, stop, update, picker, poll, since>>

\* Faulty: a round that found nothing clears the list.
handOverAnything ==
    /\ poll = "lookup" /\ asked = Len(Queries)
    /\ poll' = "update" /\ OnUpdate("pool", found)
    /\ UNCHANGED <<cluster, revision, faults, pool, stop, picker, asked, found, partial, since>>

\* "Intentionally do not call onUpdate with an empty list."
HandOver ==
    /\ poll = "lookup" /\ asked = Len(Queries)
    /\ poll' = "update"
    /\ IF found # {} THEN OnUpdate("pool", found) ELSE UNCHANGED update
    /\ UNCHANGED <<cluster, revision, faults, pool, stop, picker, asked, found, partial, since>>

\* SetPeers returned; the goroutine sleeps, or ends when the pool was closed.
Sleep ==
    /\ poll = "update" /\ update["pool"] = NoUpdate
    /\ poll' = "sleep"
    /\ UNCHANGED <<sharedVars, asked, found, partial, since>>

\* With the context done the timer may still be chosen.
Wake ==
    /\ poll = "sleep"
    /\ poll' = "lookup" /\ asked' = 0 /\ found' = {} /\ partial' = FALSE
    /\ since' = revision
    /\ UNCHANGED sharedVars

DNSDone ==
    /\ poll = "sleep" /\ stop # "no"
    /\ poll' = "exited"
    /\ UNCHANGED <<sharedVars, asked, found, partial, since>>

DNSStep == Ask \/ HandOver \/ Sleep \/ Wake \/ DNSDone

DNSTypeOK ==
    /\ poll \in {"off", "lookup", "update", "sleep", "exited"}
    /\ asked \in 0 .. Len(Queries) /\ found \subseteq Nodes
    /\ partial \in BOOLEAN /\ since <= revision

\* After a round in which every query was answered and nothing changed.
DNSAgrees ==
    poll = "sleep" /\ ~partial /\ since = revision /\ Up # {} => picker = Up
=============================================================================
