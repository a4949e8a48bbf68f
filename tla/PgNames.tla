-------------------------------- MODULE PgNames --------------------------------
(***************************************************************************)
(* What a client of the extended query protocol sees of its connection:     *)
(* prepared statements and portals by name, and an error that switches      *)
(* everything off until the next Sync or simple query.                     *)
(***************************************************************************)
EXTENDS Integers, FiniteSets, Functions

CONSTANTS
  Names,           (* the names of statements and portals                   *)
  Queries,         (* the texts of statements                               *)
  MaxStatements,   (* the statements a connection may hold                  *)
  MaxPortals       (* the portals a connection may hold                     *)

VARIABLES
  prepared,        (* the text of every statement, by name                  *)
  bound,           (* the text of every portal, by name                     *)
  failed,          (* an error has been reported and not been synced        *)
  acked            (* the last message and its outcome                      *)

vars == <<prepared, bound, failed, acked>>

Holds(table, name, text) == name \in DOMAIN table /\ table[name] = text
With(table, name, text)  == [n \in DOMAIN table \cup {name} |->
                               IF n = name THEN text ELSE table[n]]
Without(table, name)     == Restrict(table, DOMAIN table \ {name})

Fits(table, name, max) == name \in DOMAIN table \/ Cardinality(DOMAIN table) < max

Empty == [n \in {} |-> n]

Init == prepared = Empty /\ bound = Empty /\ failed = FALSE /\ acked = <<>>

Prepare(name, text) ==
  /\ ~failed /\ Fits(prepared, name, MaxStatements)
  /\ prepared' = With(prepared, name, text)
  /\ acked' = <<"parse", name, text>>
  /\ UNCHANGED <<bound, failed>>

(* The portal takes the text its statement has at that moment.             *)
Bind(portal, name) ==
  /\ ~failed /\ Fits(bound, portal, MaxPortals)
  /\ name \in DOMAIN prepared
  /\ bound' = With(bound, portal, prepared[name])
  /\ acked' = <<"bind", portal, name>>
  /\ UNCHANGED <<prepared, failed>>

CloseStatement(name) ==
  /\ ~failed
  /\ prepared' = Without(prepared, name)
  /\ acked' = <<"close statement", name>>
  /\ UNCHANGED <<bound, failed>>

ClosePortal(name) ==
  /\ ~failed
  /\ bound' = Without(bound, name)
  /\ acked' = <<"close portal", name>>
  /\ UNCHANGED <<prepared, failed>>

(* Describe and Execute change neither table.                              *)
Use    == ~failed /\ acked' = <<>> /\ UNCHANGED <<prepared, bound, failed>>

(* An error leaves every statement and portal as it is.                    *)
Fail   == failed' = TRUE /\ acked' = <<"error">> /\ UNCHANGED <<prepared, bound>>
Resync == failed' = FALSE /\ acked' = <<"ready">> /\ UNCHANGED <<prepared, bound>>

Next ==
  \/ \E n \in Names, q \in Queries : Prepare(n, q)
  \/ \E p, n \in Names : Bind(p, n)
  \/ \E n \in Names : CloseStatement(n) \/ ClosePortal(n)
  \/ Use
  \/ Fail
  \/ Resync

Spec == Init /\ [][Next]_vars
===============================================================================
