------------------------------- MODULE ApiKeys --------------------------------
(* The API keys of one project: the rows of api_keys, the requests that read a *)
(* row when they arrive (apps/api/src/auth.ts, packages/auth/src/api-key.ts)   *)
(* and create or revoke keys later, in a transaction of their own              *)
(* (apps/api/src/routes/control.ts), and the seed command. Every key is bound  *)
(* to a project and each statement names it, so projects share nothing. A key  *)
(* is its lookup prefix; hashing and comparing it always succeeds here, and a  *)
(* request that would fail is one that never authenticates.                    *)
EXTENDS FiniteSets

CONSTANTS
    Keys,             \* the keys that may be generated
    Requests,         \* the requests in flight
    Permissions,      \* the permissions the system knows
    Manage,           \* api_key:manage
    Roles,            \* what each role may grant, a set of sets of permissions
    NoKey             \* the creator of a key that the seed command made

ASSUME ApiKeysAssumption ==
    /\ Manage \in Permissions
    /\ Roles \subseteq SUBSET Permissions
    /\ NoKey \notin Keys

VARIABLES
    rows,             \* key -> its row, for the keys that were created
    principals        \* request -> the principal it authenticated as, or NoKey

keyVars == <<rows, principals>>

Created == DOMAIN rows

-------------------------------------------------------------------------------

\* What authenticateApiKey asks of the row it finds.
Working(k) == /\ k \in Created
              /\ ~rows[k].revoked
              /\ ~rows[k].expired

KeysInit == /\ rows = <<>>
            /\ principals = [q \in Requests |-> NoKey]

Insert(k, row) == rows' = [j \in Created \cup {k} |-> IF j = k THEN row ELSE rows[j]]

\* The seed command gives the bootstrap key every permission and no expiry. It
\* generates another one on each run unless a key is configured for it.
Seed == /\ \E k \in Keys \ Created :
               Insert(k, [permissions |-> Permissions, createdBy |-> NoKey,
                          expires |-> FALSE, expired |-> FALSE, revoked |-> FALSE])
        /\ UNCHANGED principals

\* The onRequest hook, in a transaction of its own: the request goes on with the
\* permissions its key had then.
Authenticate(q) ==
    /\ principals[q] = NoKey
    /\ \E k \in Keys :
           /\ Working(k)
           /\ principals' = [principals EXCEPT
                 ![q] = [subjectId |-> k, permissions |-> rows[k].permissions]]
    /\ UNCHANGED rows

\* A mutant of Authorized: any key that authenticates may do anything.
AuthorizedByAnyKey(q, permission) == principals[q] # NoKey

Authorized(q, permission) == /\ principals[q] # NoKey
                             /\ permission \in principals[q].permissions

Answer(q) == principals' = [principals EXCEPT ![q] = NoKey]

\* What a caller with these permissions may give a new key.
Grantable(permissions) ==
    {requested \in SUBSET Permissions \ {{}} :
        /\ \E role \in Roles : requested \subseteq role
        /\ requested \subseteq permissions}

\* POST /v1/api-keys: the insert and its audit event, which names the caller.
Create(q) ==
    /\ Authorized(q, Manage)
    /\ \E k \in Keys \ Created, expires \in BOOLEAN,
          requested \in Grantable(principals[q].permissions) :
           Insert(k, [permissions |-> requested, createdBy |-> principals[q].subjectId,
                      expires |-> expires, expired |-> FALSE, revoked |-> FALSE])
    /\ Answer(q)

\* A caller may write the id of a key as it is stored or with capital letters. The
\* check of the parameter lets both through, the handler compares strings, and the
\* UPDATE compares uuids.
Spellings == {"stored", "capitals"}

\* DELETE /v1/api-keys/:id. What the handler refuses is the id of the request's own
\* key as it is stored, and the update finds a row that is not revoked.
Revocable(q) ==
    {k \in Created :
        /\ ~rows[k].revoked
        /\ \E spelling \in Spellings :
               <<k, spelling>> # <<principals[q].subjectId, "stored">>}

Revoke(q) ==
    /\ Authorized(q, Manage)
    /\ \E k \in Revocable(q) : rows' = [rows EXCEPT ![k].revoked = TRUE]
    /\ Answer(q)

\* Every other answer: a list, a refusal, a key not found, a failure.
AnswerOnly(q) == /\ principals[q] # NoKey
                 /\ Answer(q)
                 /\ UNCHANGED rows

Expire(k) == /\ k \in Created
             /\ rows[k].expires
             /\ ~rows[k].expired
             /\ rows' = [rows EXCEPT ![k].expired = TRUE]
             /\ UNCHANGED principals

KeysNext ==
    \/ Seed
    \/ \E q \in Requests : Authenticate(q) \/ Create(q) \/ Revoke(q) \/ AnswerOnly(q)
    \/ \E k \in Keys : Expire(k)

KeysSpec == KeysInit /\ [][KeysNext]_keyVars

-------------------------------------------------------------------------------

Row == [permissions : SUBSET Permissions, createdBy : Keys \cup {NoKey},
        expires : BOOLEAN, expired : BOOLEAN, revoked : BOOLEAN]

KeysTypeOK ==
    /\ Created \subseteq Keys
    /\ rows \in [Created -> Row]
    /\ principals \in [Requests -> {NoKey} \cup
                          [subjectId : Keys, permissions : SUBSET Permissions]]

\* No chain of keys, each created with the one before it, ends with a permission that
\* its first key did not have, whatever was revoked or expired in between
\* (control.ts:334-338).
GrantsWithinCreators ==
    \A k \in Created :
        rows[k].createdBy # NoKey =>
            rows[k].permissions \subseteq rows[rows[k].createdBy].permissions

CanManage(k) == Working(k) /\ Manage \in rows[k].permissions

Answered(q) == principals[q] # NoKey /\ principals'[q] = NoKey

\* A project keeps a key that can manage its keys. It loses the last one only when that
\* one expires or when a request revokes it whose own key does not work after that: it
\* stopped working since the request authenticated, as when two keys revoke each other
\* at once (auth.ts:93-108 reads the row in another transaction than
\* control.ts:390-393 writes), or the request revokes the key it came with
\* ("An API key cannot revoke itself", control.ts:388, but see Spellings).
LastManagerStepsOnlyAside ==
    LET Lost == (\E k \in Keys : CanManage(k)) /\ ~(\E k \in Keys : CanManage(k))'
        Late(q) == Answered(q) /\ ~Working(principals[q].subjectId)
        Self(q) == Answered(q) /\ rows'[principals[q].subjectId].revoked
        Expiry  == \E k \in Created : rows'[k].expired /\ ~rows[k].expired
    IN  Lost => Expiry \/ \E q \in Requests : Late(q) \/ Self(q)

ManagerStepsOnlyAside == [][LastManagerStepsOnlyAside]_keyVars
===============================================================================
