-------------------------------- MODULE Node --------------------------------
(***************************************************************************)
(* The life of the service's processes: InitDB (FGF-idP/model/main.go)     *)
(* with the key files (FGF-idP/common/crypto.go), then run and serveHTTP   *)
(* (FGF-idP/main.go) until the process is gone and is started again.       *)
(*                                                                         *)
(* Several nodes share one database.  Each starts in a working directory,  *)
(* where GenerateRSAKeyPair makes ./keys, and has its two key files where  *)
(* PRIV_KEY_PATH and PUB_KEY_PATH say: a volume stands for such a pair of  *)
(* paths.  Nodes may share both, either or neither.                        *)
(*                                                                         *)
(* A node runs one statement or file operation at a time; it may die at    *)
(* any of them.  Whatever goes wrong during start-up ends the process, and *)
(* the next start begins anew.                                             *)
(***************************************************************************)
EXTENDS Naturals, Sequences

CONSTANTS
    Nodes,
    Dirs,               \* working directories
    Volumes,            \* where key files may lie
    Under,              \* the directory whose ./keys a volume is in, or None
    Placements,         \* where nodes may start and keep their key files
    CreateRoot,         \* CREATE_ROOT_USER
    AllowDefault,       \* ALLOW_INSECURE_DEFAULT_CLIENT
    MaxCrashes,         \* bound: failures of a process or a statement
    MaxEdits,           \* bound: what operators do to keys and rows
    Initial,            \* InitialKeyKID
    Torn,               \* the content of a file that is not written yet
    None

ASSUME NodeAssumption ==
    /\ CreateRoot \in BOOLEAN /\ AllowDefault \in BOOLEAN
    /\ MaxCrashes \in Nat /\ MaxEdits \in Nat
    /\ Under \in [Volumes -> Dirs \cup {None}]
    /\ Placements \subseteq [Nodes -> Dirs] \X [Nodes -> Volumes]
    /\ Initial \notin Nat /\ Torn \notin Nat /\ None \notin Nat \cup Dirs
    /\ Torn # None /\ Initial # None

VARIABLES
    cwd,                \* where each node starts
    volume,             \* where each node keeps its key files
    keysDirs,           \* the directories that have a ./keys
    disk,               \* the files of each volume
    generated,          \* how many keys were drawn
    rows,               \* the seeded rows of the database
    jwks,               \* table jwk_keys, in the order of its ids
    p,                  \* the process of each node
    crashes, edits

fileVars == <<keysDirs, disk, generated>>
tableVars == <<rows, jwks>>
envVars == <<cwd, volume, crashes, edits>>
vars == <<fileVars, tableVars, p, envVars>>

\* The key pairs, in the order they are drawn.
Keys == Nat \ {0}

Files == {"priv", "pub"}

Disk == [priv : Keys \cup {Torn, None}, pub : Keys \cup {Torn, None}]

NoDisk == [priv |-> None, pub |-> None]

Complete(d) == d.priv \in Keys /\ d.pub \in Keys

Tables == {"root", "startup", "metadata", "client"}

\* A row that the SELECT does not find and a unique index does not let in: a
\* name or address of root that another account has, a deleted default client.
RowStates == {"absent", "present", "blocked"}

\* derivedJWKID is injective: a derived kid is named by its key.
Kids == {Initial} \cup Keys

JwkKey == [kid : Kids, key : Keys, active : BOOLEAN]

Generating == {"open_priv", "fill_priv", "open_pub", "fill_pub"}

Loaded == {"jwk_match", "jwk_active", "jwk_any", "jwk_initial", "jwk_derived"}

Keyed == {"client", "client_create", "startup_create", "listen",
          "serving", "draining", "stopping"}

Points == {"down", "root", "root_create", "startup", "metadata", "metadata_create",
           "load_priv", "load_pub", "mkdir"} \cup Generating \cup Loaded \cup Keyed

Process ==
    [at : Points,
     found : BOOLEAN,                    \* a startup record was found
     made : BOOLEAN,                     \* the key files were just written
     priv : Keys \cup {Torn, None},      \* RSAPrivateKey
     pub : Keys \cup {None},             \* RSAPublicKey
     kid : Kids \cup {None},             \* ActiveKeyID
     cleanup : {"none", "working", "waiting", "done"},   \* RunAuthCleanup
     cancelled : BOOLEAN,                \* its context
     off : SUBSET Kids]        \* history: deactivated since the node started

Down ==
    [at |-> "down", found |-> FALSE, made |-> FALSE, priv |-> None, pub |-> None,
     kid |-> None, cleanup |-> "none", cancelled |-> FALSE, off |-> {}]

NodeTypeOK ==
    /\ cwd \in [Nodes -> Dirs] /\ volume \in [Nodes -> Volumes]
    /\ keysDirs \subseteq Dirs
    /\ disk \in [Volumes -> Disk]
    /\ generated \in Nat
    /\ rows \in [Tables -> RowStates]
    /\ jwks \in Seq(JwkKey)
    /\ p \in [Nodes -> Process]
    /\ \A n \in Nodes : p[n].at \in Keyed => p[n].kid \in Kids
    /\ crashes \in 0 .. MaxCrashes
    /\ edits \in 0 .. MaxEdits

Init ==
    /\ \E place \in Placements : cwd = place[1] /\ volume = place[2]
    /\ keysDirs = {}
    /\ disk = [v \in Volumes |-> NoDisk]
    /\ generated = 0
    /\ rows \in [Tables -> {"absent", "blocked"}]
    /\ \A table \in Tables : rows[table] = "blocked" => table = "root"
    /\ jwks = <<>>
    /\ p = [n \in Nodes |-> Down]
    /\ crashes = 0
    /\ edits = 0

At(n, point) == p[n].at = point

Goto(n, point) == p' = [p EXCEPT ![n].at = point]

Exit(n) == p' = [p EXCEPT ![n] = Down]

-----------------------------------------------------------------------------
(* Rows that are looked up first and inserted if they are not there.       *)

Probe(n, here, table, insert, next) ==
    /\ At(n, here)
    /\ Goto(n, IF rows[table] = "present" THEN next ELSE insert)
    /\ UNCHANGED <<fileVars, tableVars, envVars>>

Insert(n, here, table, next) ==
    /\ At(n, here)
    /\ IF rows[table] = "absent"
       THEN rows' = [rows EXCEPT ![table] = "present"] /\ Goto(n, next)
       ELSE Exit(n) /\ UNCHANGED rows
    /\ UNCHANGED <<fileVars, jwks, envVars>>

\* InitDB up to CheckRootUser; migration has nothing to undo.
Launch(n) ==
    /\ At(n, "down")
    /\ Goto(n, IF CreateRoot THEN "root" ELSE "startup")
    /\ UNCHANGED <<fileVars, tableVars, envVars>>

CheckRootUser(n) == Probe(n, "root", "root", "root_create", "startup")

createRootAccount(n) == Insert(n, "root_create", "root", "startup")

findStartupRecord(n) ==
    /\ At(n, "startup")
    /\ p' = [p EXCEPT ![n].at = "metadata", ![n].found = rows["startup"] = "present"]
    /\ UNCHANGED <<fileVars, tableVars, envVars>>

upsertMetadata(n) ==
    \/ Probe(n, "metadata", "metadata", "metadata_create", "load_priv")
    \/ Insert(n, "metadata_create", "metadata", "load_priv")

\* After ensureDefaultClient: the startup record, unless one was found.
AfterClient(n) == IF p[n].found THEN "listen" ELSE "startup_create"

ensureDefaultClient(n) ==
    \/ Probe(n, "client", "client", "client_create", AfterClient(n))
    \/ Insert(n, "client_create", "client", AfterClient(n))

CreateStartup(n) == Insert(n, "startup_create", "startup", "listen")

-----------------------------------------------------------------------------
(* LoadKey and GenerateRSAKeyPair.                                         *)

MyDisk(n) == disk[volume[n]]

\* ErrKeyNotFound: the keys are generated, but only once per start.
KeyNotFound(n) == IF p[n].made THEN Exit(n) ELSE Goto(n, "mkdir")

LoadPriv(n) ==
    /\ At(n, "load_priv")
    /\ IF MyDisk(n).priv = None THEN KeyNotFound(n)
       ELSE p' = [p EXCEPT ![n].at = "load_pub", ![n].priv = MyDisk(n).priv]
    /\ UNCHANGED <<fileVars, tableVars, envVars>>

\* Both files are parsed when both were read; then isKeyExists has returned.
LoadPub(n) ==
    /\ At(n, "load_pub")
    /\ IF MyDisk(n).pub = None THEN KeyNotFound(n)
       ELSE IF Torn \in {p[n].priv, MyDisk(n).pub} THEN Exit(n)
       ELSE p' = [p EXCEPT ![n].at = "jwk_match", ![n].pub = MyDisk(n).pub,
                           ![n].made = FALSE]
    /\ UNCHANGED <<fileVars, tableVars, envVars>>

\* Mutant: os.MkdirAll, which accepts a directory that is there.
Mkdir_All(n) ==
    /\ At(n, "mkdir")
    /\ keysDirs' = keysDirs \cup {cwd[n]}
    /\ generated' = generated + 1
    /\ p' = [p EXCEPT ![n].at = "open_priv", ![n].priv = generated + 1]
    /\ UNCHANGED <<disk, tableVars, envVars>>

\* os.Mkdir("keys") fails if the directory is there; then the key is drawn.
Mkdir(n) ==
    /\ At(n, "mkdir")
    /\ cwd[n] \notin keysDirs
    /\ keysDirs' = keysDirs \cup {cwd[n]}
    /\ generated' = generated + 1
    /\ p' = [p EXCEPT ![n].at = "open_priv", ![n].priv = generated + 1]
    /\ UNCHANGED <<disk, tableVars, envVars>>

MkdirFails(n) ==
    /\ At(n, "mkdir")
    /\ cwd[n] \in keysDirs
    /\ Exit(n)
    /\ UNCHANGED <<fileVars, tableVars, envVars>>

\* os.WriteFile: the file is there, empty, before it has its content.  In the
\* ./keys of another directory there may be no place for it.
OpenFile(n, here, file, next) ==
    /\ At(n, here)
    /\ IF Under[volume[n]] \in keysDirs \cup {None}
       THEN disk' = [disk EXCEPT ![volume[n]][file] = Torn] /\ Goto(n, next)
       ELSE Exit(n) /\ UNCHANGED disk
    /\ UNCHANGED <<keysDirs, generated, tableVars, envVars>>

FillFile(n, here, file, next) ==
    /\ At(n, here)
    /\ disk' = [disk EXCEPT ![volume[n]][file] = p[n].priv]
    /\ p' = [p EXCEPT ![n].at = next, ![n].made = next = "load_priv"]
    /\ UNCHANGED <<keysDirs, generated, tableVars, envVars>>

GenerateRSAKeyPair(n) ==
    \/ Mkdir(n) \/ MkdirFails(n)
    \/ OpenFile(n, "open_priv", "priv", "fill_priv")
    \/ FillFile(n, "fill_priv", "priv", "open_pub")
    \/ OpenFile(n, "open_pub", "pub", "fill_pub")
    \/ FillFile(n, "fill_pub", "pub", "load_priv")

-----------------------------------------------------------------------------
(* ensureActiveJWK: three queries, then an update or an insert.            *)

Active == {i \in DOMAIN jwks : jwks[i].active}

\* JwksKeys: the keys that relying parties verify with.
Published == {<<jwks[i].kid, jwks[i].key>> : i \in Active}

Matching(n) == {i \in DOMAIN jwks : jwks[i].key = p[n].pub}

\* ORDER BY id DESC, the first row.
Newest(i, ids) == i \in ids /\ \A k \in ids : k <= i

UseKid(n, kid) ==
    p' = [p EXCEPT ![n].kid = kid,
              ![n].at = IF AllowDefault THEN "client" ELSE AfterClient(n)]

\* Mutant: the kid is not remembered.
JwkMatch_NoKid(n) ==
    /\ At(n, "jwk_match")
    /\ IF Active \cap Matching(n) # {} THEN UseKid(n, None)
       ELSE Goto(n, "jwk_active")
    /\ UNCHANGED <<fileVars, tableVars, envVars>>

JwkMatch(n) ==
    LET found == Active \cap Matching(n) IN
    /\ At(n, "jwk_match")
    /\ \/ \E i \in found : Newest(i, found) /\ UseKid(n, jwks[i].kid)
       \/ found = {} /\ Goto(n, "jwk_active")
    /\ UNCHANGED <<fileVars, tableVars, envVars>>

\* GetActiveSigningKey; another node may have inserted the key meanwhile.
JwkActive(n) ==
    /\ At(n, "jwk_active")
    /\ \/ \E i \in Active :
              /\ Newest(i, Active)
              /\ IF jwks[i].key = p[n].pub THEN UseKid(n, jwks[i].kid)
                 ELSE Goto(n, "jwk_any")
       \/ Active = {} /\ Goto(n, "jwk_initial")
    /\ UNCHANGED <<fileVars, tableVars, envVars>>

\* An inactive row of this key is activated again.  Rows never vanish, so the
\* query and the update by id are one step.
JwkAny(n) ==
    /\ At(n, "jwk_any")
    /\ \/ \E i \in Matching(n) :
              /\ Newest(i, Matching(n))
              /\ jwks' = [jwks EXCEPT ![i].active = TRUE]
              /\ UseKid(n, jwks[i].kid)
       \/ Matching(n) = {} /\ Goto(n, "jwk_derived") /\ UNCHANGED jwks
    /\ UNCHANGED <<fileVars, rows, envVars>>

\* The unique index on kid refuses a second row.
JwkInsert(n, here, kid) ==
    /\ At(n, here)
    /\ IF \E i \in DOMAIN jwks : jwks[i].kid = kid THEN Exit(n) /\ UNCHANGED jwks
       ELSE /\ jwks' = Append(jwks, [kid |-> kid, key |-> p[n].pub, active |-> TRUE])
            /\ UseKid(n, kid)
    /\ UNCHANGED <<fileVars, rows, envVars>>

ensureActiveJWK(n) ==
    \/ JwkMatch(n) \/ JwkActive(n) \/ JwkAny(n)
    \/ JwkInsert(n, "jwk_initial", Initial)
    \/ JwkInsert(n, "jwk_derived", p[n].pub)

-----------------------------------------------------------------------------
(* run: the clean-up goroutine, the server, and the way down.              *)

Serve(n) ==
    /\ At(n, "listen")
    /\ p' = [p EXCEPT ![n].at = "serving", ![n].cleanup = "working", ![n].found = FALSE]
    /\ UNCHANGED <<fileVars, tableVars, envVars>>

\* Mutant: the deferred function waits for the clean-up but does not stop it.
Deferred_NoStop(n) == p' = [p EXCEPT ![n].at = "stopping"]

\* The deferred function of run: stop, then wait for the clean-up.
Deferred(n) == p' = [p EXCEPT ![n].at = "stopping", ![n].cancelled = TRUE]

\* ListenAndServe returns an error.
ListenFails(n) ==
    /\ At(n, "serving")
    /\ crashes < MaxCrashes
    /\ crashes' = crashes + 1
    /\ Deferred(n)
    /\ UNCHANGED <<fileVars, tableVars, cwd, volume, edits>>

\* SIGTERM cancels the context; Shutdown lets no more requests in.
Terminate(n) ==
    /\ At(n, "serving")
    /\ p' = [p EXCEPT ![n].at = "draining", ![n].cancelled = TRUE]
    /\ UNCHANGED <<fileVars, tableVars, envVars>>

\* Shutdown has drained, or ten seconds are over.
Shutdown(n) ==
    /\ At(n, "draining")
    /\ Deferred(n)
    /\ UNCHANGED <<fileVars, tableVars, envVars>>

\* A pass ends, well or not, and the next tick starts another.
CleanupPass(n) ==
    /\ p[n].cleanup \in {"working", "waiting"}
    /\ p' = [p EXCEPT ![n].cleanup = IF @ = "working" THEN "waiting" ELSE "working"]
    /\ UNCHANGED <<fileVars, tableVars, envVars>>

\* The select of RunAuthCleanup finds its context done.
CleanupReturns(n) ==
    /\ p[n].cleanup = "waiting"
    /\ p[n].cancelled
    /\ p' = [p EXCEPT ![n].cleanup = "done"]
    /\ UNCHANGED <<fileVars, tableVars, envVars>>

\* The pool is closed and the process ends.
CloseDB(n) ==
    /\ At(n, "stopping")
    /\ p[n].cleanup = "done"
    /\ Exit(n)
    /\ UNCHANGED <<fileVars, tableVars, envVars>>

-----------------------------------------------------------------------------
(* What the world does.                                                    *)

\* The process is killed, or its statement or file operation fails.
Crash(n) ==
    /\ ~At(n, "down")
    /\ crashes < MaxCrashes
    /\ crashes' = crashes + 1
    /\ Exit(n)
    /\ UNCHANGED <<fileVars, tableVars, cwd, volume, edits>>

\* Operators lose a key file, or remove a ./keys with what is in it, while
\* nothing runs that uses them.
LoseFile(v) ==
    /\ \A n \in Nodes : volume[n] = v => At(n, "down")
    /\ \E file \in Files :
           /\ disk[v][file] # None
           /\ disk' = [disk EXCEPT ![v][file] = None]
    /\ UNCHANGED <<keysDirs, generated, tableVars, p>>

RemoveKeys(d) ==
    /\ d \in keysDirs
    /\ \A n \in Nodes : d \in {cwd[n], Under[volume[n]]} => At(n, "down")
    /\ keysDirs' = keysDirs \ {d}
    /\ disk' = [v \in Volumes |-> IF Under[v] = d THEN NoDisk ELSE disk[v]]
    /\ UNCHANGED <<generated, tableVars, p>>

\* The console deletes the default client.
EditClient ==
    /\ rows["client"] = "present"
    /\ \E n \in Nodes : At(n, "serving")
    /\ rows' = [rows EXCEPT !["client"] = "blocked"]
    /\ UNCHANGED <<fileVars, jwks, p>>

\* is_active is only ever cleared by hand.
Deactivate(i) ==
    /\ jwks[i].active
    /\ jwks' = [jwks EXCEPT ![i].active = FALSE]
    /\ p' = [n \in Nodes |->
           IF At(n, "down") THEN p[n]
           ELSE [p[n] EXCEPT !.off = @ \cup {jwks[i].kid}]]
    /\ UNCHANGED <<fileVars, rows>>

Edit ==
    /\ edits < MaxEdits
    /\ edits' = edits + 1
    /\ \/ \E v \in Volumes : LoseFile(v)
       \/ \E d \in Dirs : RemoveKeys(d)
       \/ EditClient
       \/ \E i \in DOMAIN jwks : Deactivate(i)
    /\ UNCHANGED <<cwd, volume, crashes>>

-----------------------------------------------------------------------------
InitDB(n) ==
    \/ Launch(n) \/ CheckRootUser(n) \/ createRootAccount(n)
    \/ findStartupRecord(n) \/ upsertMetadata(n)
    \/ LoadPriv(n) \/ LoadPub(n) \/ GenerateRSAKeyPair(n)
    \/ ensureActiveJWK(n)
    \/ ensureDefaultClient(n) \/ CreateStartup(n)

\* What a process does by itself once it runs.
Run(n) == InitDB(n) \/ Serve(n) \/ Shutdown(n) \/ CloseDB(n)

Next ==
    \/ \E n \in Nodes : Run(n) \/ CleanupPass(n) \/ CleanupReturns(n)
    \/ \E n \in Nodes : ListenFails(n) \/ Terminate(n) \/ Crash(n)
    \/ Edit

Spec == Init /\ [][Next]_vars

\* Processes run, and whoever runs the service starts it again.  The select of
\* the clean-up loop chooses at random among what is ready: SF.
Fairness ==
    \A n \in Nodes :
        WF_vars(Run(n)) /\ WF_vars(CleanupPass(n)) /\ SF_vars(CleanupReturns(n))

FairSpec == Spec /\ Fairness

-----------------------------------------------------------------------------
(* Properties.                                                             *)

\* The default paths: whoever uses these files starts in the directory whose
\* ./keys they are in, which is the only one that os.Mkdir guards.
InOwnKeys(v) == \A n \in Nodes : volume[n] = v => Under[v] = cwd[n]

\* LoadKey, GenerateRSAKeyPair and ensureActiveJWK: a node signs with a private
\* key whose public half is published under the kid it writes into the token,
\* unless that kid was deactivated by hand since the node started.  Nothing
\* compares the two files: it is the Mkdir that keeps two nodes, or a start
\* after a crash, from mixing pairs, and only where it guards the files.
KidNamesKey ==
    \A n \in Nodes : p[n].at \in Keyed =>
        /\ InOwnKeys(volume[n]) => p[n].priv = p[n].pub
        /\ <<p[n].kid, p[n].pub>> \in Published \/ p[n].kid \in p[n].off

\* GenerateRSAKeyPair: a complete pair under the default paths is never
\* overwritten, so tokens signed before a crash or a race of two starts stay
\* valid after it.
PairIsKept ==
    [][\A v \in Volumes :
           InOwnKeys(v) /\ Complete(disk[v]) /\ disk'[v] # disk[v]
           => edits' # edits]_vars

\* What no start can get past: key files that are not whole when ./keys is there
\* or both files are, a row that is neither found nor free, and no active key
\* when the first kid is taken.
Stranded(n) ==
    \/ /\ ~Complete(MyDisk(n))
       /\ cwd[n] \in keysDirs \/ None \notin {MyDisk(n).priv, MyDisk(n).pub}
       /\ \A m \in Nodes : volume[m] = volume[n] => p[m].at \notin Generating
    \/ CreateRoot /\ rows["root"] = "blocked"
    \/ AllowDefault /\ rows["client"] = "blocked"
    \/ Active = {} /\ \E i \in DOMAIN jwks : jwks[i].kid = Initial

\* InitDB and run: a node that is started again and again comes to serve again
\* and again, whatever crashed and whoever started at the same time, unless it
\* is stranded for good; and one that is told to stop does stop.
ServesUnlessStranded ==
    \A n \in Nodes : []<>At(n, "serving") \/ <>[]Stranded(n)
=============================================================================
