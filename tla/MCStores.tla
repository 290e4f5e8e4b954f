------------------------------ MODULE MCStores -------------------------------
(* Five components that share nothing, one of which runs: the event log, a    *)
(* listing, the migrations, the API keys, the artifact store.                 *)
EXTENDS EventLog, Listing, Migrations, ApiKeys, ArtifactStore, TLC

VARIABLE component

CONSTANTS
    t1, t2, t3, t4, p1, p2, x, y,       \* transactions, projects, aggregates
    m1, m2, m3, a1, a2, c1, c2

\* Two invalidations that reach the same two outputs in opposite orders, and two new
\* API keys, one of another project.
MCProjectOf == t1 :> p1 @@ t2 :> p1 @@ t3 :> p1 @@ t4 :> p2
MCAppendsOf == t1 :> <<x, y, Audit>> @@ t2 :> <<y, x, Audit>> @@ t3 :> <<Audit>> @@ t4 :> <<Audit>>

\* Builds of two branches, and one in which a migration was modified.
Sql(v, d)   == [version |-> v, digest |-> d]
MCPackageOf == m1 :> <<Sql(1, 1), Sql(2, 2)>>
            @@ m2 :> <<Sql(1, 1), Sql(2, 1), Sql(4, 1)>>
            @@ m3 :> <<Sql(1, 1), Sql(3, 1), Sql(4, 1)>>

\* Two artifacts that share a chunk.
MCChunksOf == a1 :> {c1, c2} @@ a2 :> {c2}

vars == <<component, logVars, listingVars, migrationVars, keyVars, storeVars>>

Init ==
    /\ component \in {"events", "listing", "migrations", "keys", "artifacts"}
    /\ LogInit /\ ListingInit /\ MigrationsInit /\ KeysInit /\ StoreInit

Next ==
    /\ UNCHANGED component
    /\ \/ /\ component = "events" /\ LogNext
          /\ UNCHANGED <<listingVars, migrationVars, keyVars, storeVars>>
       \/ /\ component = "listing" /\ ListingNext
          /\ UNCHANGED <<logVars, migrationVars, keyVars, storeVars>>
       \/ /\ component = "migrations" /\ MigrationsNext
          /\ UNCHANGED <<logVars, listingVars, keyVars, storeVars>>
       \/ /\ component = "keys" /\ KeysNext
          /\ UNCHANGED <<logVars, listingVars, migrationVars, storeVars>>
       \/ /\ component = "artifacts" /\ StoreNext
          /\ UNCHANGED <<logVars, listingVars, migrationVars, keyVars>>

Fairness == \A t \in Transactions : WF_vars(component = "events" /\ TransactionStep(t)
                                   /\ UNCHANGED <<component, listingVars, migrationVars, keyVars, storeVars>>)

Spec == Init /\ [][Next]_vars /\ Fairness
==============================================================================
