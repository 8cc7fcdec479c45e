----------------------------- MODULE Credentials -----------------------------
(***************************************************************************)
(* The stored exchange credentials of one account: the row that            *)
(* CredentialStore encrypts and decrypts, the two scripts that operators   *)
(* run to put a pair into it and read it back, and AccountStreamManager,   *)
(* which reads it when the execution service starts.                       *)
(*                                                                         *)
(* Every run of a script brings a pair of its own: the run is its name.    *)
(* The row keeps the two halves apart, and AES-GCM is what it does:        *)
(* nothing is decrypted with another key than it was encrypted with.       *)
(* Every run, and the service, has the encryption key of its environment.  *)
(*                                                                         *)
(* Bounds: Savers runs, MaxRestarts restarts of the service, MaxDeletions  *)
(* deletions, MaxStoreFaults failing calls of the database.                *)
(***************************************************************************)
EXTENDS Naturals

CONSTANTS Savers, EncryptionKeys, Invalid, MaxRestarts, MaxDeletions, MaxStoreFaults

ASSUME CredentialAssumption ==
    /\ Invalid \notin EncryptionKeys
    /\ MaxRestarts \in Nat /\ MaxDeletions \in Nat /\ MaxStoreFaults \in Nat

VARIABLES
    account,   \* the account is in exchange_accounts
    keyOf,     \* the encryption key each run has, Invalid if it is none
    verify,    \* the runs that read back what they have saved
    stage,     \* where each run is, or how it has ended
    known,     \* the id of the row that each run has found, 0 for none
    row,       \* the rows of the account: none or one
    ids,       \* ids given so far
    written,   \* history: the runs that have written the row
    serviceKey,\* the encryption key of the execution service
    manager,   \* where AccountStreamManager.start is
    first,     \* what its first look at the row has returned
    listener,  \* the pairs of the running listeners: none or one
    restarts, deletions, storeFaults

runVars == <<account, keyOf, verify, stage, known>>
tableVars == <<row, ids, written>>
managerVars == <<serviceKey, manager, first, listener, restarts>>
credentialVars == <<runVars, tableVars, managerVars, deletions, storeFaults>>

CredentialInit ==
    /\ account \in BOOLEAN
    /\ keyOf \in [Savers -> EncryptionKeys \cup {Invalid}]
    /\ verify \in SUBSET Savers
    /\ stage = [p \in Savers |-> "started"] /\ known = [p \in Savers |-> 0]
    /\ row = {} /\ ids = 0 /\ written = {}
    /\ serviceKey \in EncryptionKeys \cup {Invalid}
    /\ manager = "off" /\ first = {} /\ listener = {}
    /\ restarts = 0 /\ deletions = 0 /\ storeFaults = 0

StoreFault == storeFaults < MaxStoreFaults /\ storeFaults' = storeFaults + 1

Reach(p, s) == stage' = [stage EXCEPT ![p] = s]

-----------------------------------------------------------------------------
\* _do_store of store_credentials.py and main of import_env_credentials.py.

\* The account is looked up (exit code 2), then the key is decoded (1). An
\* error of this query is caught by nobody.
FindAccount(p) ==
    /\ stage[p] = "started"
    /\ \/ /\ Reach(p, IF ~account THEN "not_found"
                      ELSE IF keyOf[p] = Invalid THEN "misconfigured" ELSE "saving")
          /\ UNCHANGED storeFaults
       \/ StoreFault /\ Reach(p, "traceback")
    /\ UNCHANGED <<account, keyOf, verify, known, tableVars, managerVars, deletions>>

\* save: the row of the account, if there is one ...
SelectRow(p) ==
    /\ stage[p] = "saving"
    /\ \/ /\ known' = [known EXCEPT ![p] = IF row = {} THEN 0 ELSE (CHOOSE r \in row : TRUE).id]
          /\ Reach(p, "found") /\ UNCHANGED storeFaults
       \/ StoreFault /\ Reach(p, "save_failed") /\ UNCHANGED known
    /\ UNCHANGED <<account, keyOf, verify, tableVars, managerVars, deletions>>

Encrypted(p, id) == [id |-> id, apiKey |-> p, apiSecret |-> p, by |-> keyOf[p]]

\* ... is updated by its id, which must still be there, or inserted, which the
\* unique account_id allows once.
Storable(p) == IF known[p] = 0 THEN row = {} ELSE \E r \in row : r.id = known[p]

Put(p) ==
    LET id == IF known[p] = 0 THEN ids + 1 ELSE known[p]
    IN  /\ row' = {Encrypted(p, id)}
        /\ ids' = IF known[p] = 0 THEN id ELSE ids
        /\ written' = written \cup {p}

\* A failure is exit code 3, also when the commit was done and its answer lost.
Save(p) ==
    /\ stage[p] = "found"
    /\ \/ /\ Storable(p) /\ Put(p)
          /\ Reach(p, IF p \in verify THEN "verifying" ELSE "saved")
          /\ UNCHANGED storeFaults
       \/ ~Storable(p) /\ Reach(p, "save_failed") /\ UNCHANGED <<tableVars, storeFaults>>
       \/ /\ StoreFault /\ Reach(p, "save_failed")
          /\ (Storable(p) /\ Put(p)) \/ UNCHANGED tableVars
    /\ UNCHANGED <<account, keyOf, verify, known, managerVars, deletions>>

\* get: what a reader with a key makes of the row. Both halves are decrypted or
\* there is nothing.
Decrypted(k) == {[apiKey |-> r.apiKey, apiSecret |-> r.apiSecret] : r \in {x \in row : x.by = k}}

\* The pair is read back and compared (exit codes 0 and 4); get lets an error of
\* the query through.
Verify(p) ==
    /\ stage[p] = "verifying"
    /\ \/ /\ Reach(p, IF Decrypted(keyOf[p]) = {[apiKey |-> p, apiSecret |-> p]}
                      THEN "verified" ELSE "verify_failed")
          /\ UNCHANGED storeFaults
       \/ StoreFault /\ Reach(p, "traceback")
    /\ UNCHANGED <<account, keyOf, verify, known, tableVars, managerVars, deletions>>

Delete ==
    /\ row # {} /\ deletions < MaxDeletions
    /\ deletions' = deletions + 1
    /\ row' = {}
    /\ UNCHANGED <<runVars, ids, written, managerVars, storeFaults>>

-----------------------------------------------------------------------------
\* AccountStreamManager.start, with ACCOUNT_STREAM_ENABLED.

\* Nothing is started without a key. An error of any query leaves start, and
\* with it the service's startup.
StartManager ==
    /\ manager = "off"
    /\ \/ manager' = (IF serviceKey = Invalid \/ ~account THEN "running" ELSE "looking")
          /\ UNCHANGED storeFaults
       \/ serviceKey # Invalid /\ StoreFault /\ manager' = "failed"
    /\ UNCHANGED <<runVars, tableVars, serviceKey, first, listener, restarts, deletions>>

\* Does the account have credentials?
LookOnce ==
    /\ manager = "looking"
    /\ \/ /\ first' = Decrypted(serviceKey)
          /\ manager' = (IF first' = {} THEN "running" ELSE "reading")
          /\ UNCHANGED storeFaults
       \/ StoreFault /\ manager' = "failed" /\ UNCHANGED first
    /\ UNCHANGED <<runVars, tableVars, serviceKey, listener, restarts, deletions>>

\* A bug to detect: the key is kept from the first look.
MixedHalves ==
    {[apiKey |-> a.apiKey, apiSecret |-> b.apiSecret] : a \in first, b \in Decrypted(serviceKey)}

\* The pair of the listener is the one of the second look, if there still is one.
Halves == Decrypted(serviceKey)

LookAgain ==
    /\ manager = "reading"
    /\ \/ listener' = Halves /\ manager' = "running" /\ UNCHANGED storeFaults
       \/ StoreFault /\ manager' = "failed" /\ UNCHANGED listener
    /\ UNCHANGED <<runVars, tableVars, serviceKey, first, restarts, deletions>>

\* The service is deployed again, with the key its environment has by then.
Redeploy ==
    /\ restarts < MaxRestarts /\ manager # "off"
    /\ restarts' = restarts + 1
    /\ serviceKey' \in EncryptionKeys
    /\ manager' = "off" /\ first' = {} /\ listener' = {}
    /\ UNCHANGED <<runVars, tableVars, deletions, storeFaults>>

CredentialNext ==
    \/ \E p \in Savers : FindAccount(p) \/ SelectRow(p) \/ Save(p) \/ Verify(p)
    \/ Delete
    \/ StartManager \/ LookOnce \/ LookAgain \/ Redeploy

CredentialSpec == CredentialInit /\ [][CredentialNext]_credentialVars

-----------------------------------------------------------------------------
Ends == {"not_found", "misconfigured", "save_failed", "saved", "verified", "verify_failed",
         "traceback"}

Pair == [apiKey : Savers, apiSecret : Savers]

\* Every variable keeps its type; the account has one row at most.
CredentialType ==
    /\ account \in BOOLEAN /\ verify \subseteq Savers /\ written \subseteq Savers
    /\ keyOf \in [Savers -> EncryptionKeys \cup {Invalid}]
    /\ serviceKey \in EncryptionKeys \cup {Invalid}
    /\ stage \in [Savers -> Ends \cup {"started", "saving", "found", "verifying"}]
    /\ ids \in Nat /\ known \in [Savers -> 0..ids]
    /\ row \subseteq [id : 1..ids, apiKey : Savers, apiSecret : Savers, by : EncryptionKeys]
    /\ \A r, s \in row : r = s
    /\ manager \in {"off", "looking", "reading", "running", "failed"}
    /\ first \subseteq Pair /\ listener \subseteq Pair
    /\ restarts \in 0..MaxRestarts /\ deletions \in 0..MaxDeletions
    /\ storeFaults \in 0..MaxStoreFaults

\* However the scripts are run while the service starts, which looks twice, the
\* listener gets the key and the secret of one run, saved under its own
\* encryption key.
ListenerHasAPair ==
    \A l \in listener :
      /\ l.apiKey = l.apiSecret
      /\ l.apiKey \in written /\ keyOf[l.apiKey] = serviceKey

\* "Exit codes: 0 credentials saved and verified ... 3 DB or encryption error,
\* 4 verify failed" (store_credentials.py:41), for runs that overlap: a verified
\* pair was stored, 4 takes another run or a deletion in between, and what was
\* refused is not stored, unless the answer to a commit was lost.
ExitCodesTell ==
    \A p \in Savers :
      /\ stage[p] \in {"verified", "saved", "verify_failed"} => p \in written
      /\ stage[p] = "verify_failed" => written # {p} \/ deletions > 0
      /\ stage[p] \in {"not_found", "misconfigured"} => p \notin written
      /\ stage[p] = "save_failed" /\ storeFaults = 0 => p \notin written

\* When all have finished, the pair that is stored is of a run that was told so.
StoredIsReported ==
    (storeFaults = 0 /\ \A p \in Savers : stage[p] \in Ends)
      => \A r \in row : stage[r.apiKey] \in {"verified", "saved"}

\* The stored row is a whole pair of a run that has written it, under that run's
\* key, and no run that read back something else has it there.
RowIsOfARun ==
    /\ \A r \in row :
         /\ r.apiKey = r.apiSecret /\ r.apiKey \in written /\ r.by = keyOf[r.apiKey]
         /\ stage[r.apiKey] # "verify_failed"
    /\ deletions = 0 /\ row = {} => written = {}

\* What a run has done by the time it is where it is.
WrittenWhenSaved ==
    \A p \in Savers :
      /\ stage[p] \in {"saving", "found", "verifying"} => keyOf[p] # Invalid
      /\ p \in written => stage[p] \in Ends \cup {"verifying"}
      /\ stage[p] \in {"verifying", "verified", "saved", "verify_failed"} => p \in written
      /\ storeFaults = 0 => stage[p] # "traceback" /\ (stage[p] = "save_failed" => p \notin written)

\* The credentials of an account: whole pairs, and exit codes that tell the
\* operator what has become of his.
CredentialInv == /\ CredentialType /\ ListenerHasAPair /\ ExitCodesTell /\ StoredIsReported
                 /\ RowIsOfARun /\ WrittenWhenSaved
=============================================================================
