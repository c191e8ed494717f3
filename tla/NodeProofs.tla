----------------------------- MODULE NodeProofs -----------------------------
(***************************************************************************)
(* The keys of a node, for any number of nodes, working directories, paths *)
(* of key files, crashes and edits.                                        *)
(*                                                                         *)
(* A ./keys has at most one maker, since os.Mkdir lets one through         *)
(* (OneMaker).  Where it guards the files, the maker's point says how far  *)
(* they are (Making); hence files that are both complete are one pair      *)
(* (PairsMatch), also for a node that read them one after the other        *)
(* (KeysRead).                                                             *)
(***************************************************************************)
EXTENDS Node, TLAPS

\* How far the maker of a ./keys is with files that are its own.
Making(n) ==
    LET d == disk[volume[n]] IN
    /\ p[n].at \in Generating => cwd[n] \in keysDirs /\ p[n].priv \in Keys
    /\ InOwnKeys(volume[n]) =>
           /\ p[n].at = "open_priv" => d.priv = None /\ d.pub = None
           /\ p[n].at = "fill_priv" => d.priv = Torn /\ d.pub = None
           /\ p[n].at = "open_pub" => d.priv = p[n].priv /\ d.pub = None
           /\ p[n].at = "fill_pub" => d.priv = p[n].priv /\ d.pub = Torn

OneMaker ==
    \A n, m \in Nodes :
        /\ p[n].at \in Generating /\ p[m].at \in Generating
        /\ cwd[n] = cwd[m]
        => n = m

\* A ./keys that is not there is empty, and complete files are one pair.
PairsMatch ==
    \A v \in Volumes : InOwnKeys(v) =>
        /\ Under[v] \notin keysDirs => disk[v].priv = None /\ disk[v].pub = None
        /\ Complete(disk[v]) => disk[v].priv = disk[v].pub

\* What a node has read of its files.
KeysRead(n) ==
    /\ p[n].at = "load_pub" =>
           /\ p[n].priv \in Keys \cup {Torn}
           /\ InOwnKeys(volume[n]) /\ p[n].priv \in Keys =>
                  disk[volume[n]].priv = p[n].priv
    /\ p[n].at \in Loaded \cup Keyed =>
           /\ p[n].pub \in Keys
           /\ InOwnKeys(volume[n]) => p[n].priv = p[n].pub

\* The row behind a node's kid.
KidKnown(n) ==
    p[n].at \in Keyed =>
        <<p[n].kid, p[n].pub>> \in Published \/ p[n].kid \in p[n].off

NodeInv ==
    /\ NodeTypeOK
    /\ OneMaker /\ PairsMatch
    /\ \A n \in Nodes : Making(n) /\ KeysRead(n) /\ KidKnown(n)

-----------------------------------------------------------------------------
(* One process moves.                                                      *)

LEMMA PointsKnown ==
    /\ "down" \in Points /\ "root" \in Points /\ "root_create" \in Points
    /\ "startup" \in Points /\ "metadata" \in Points /\ "metadata_create" \in Points
    /\ "load_priv" \in Points /\ "load_pub" \in Points /\ "mkdir" \in Points
    /\ Generating \subseteq Points /\ Loaded \subseteq Points /\ Keyed \subseteq Points
BY DEF Points

LEMMA DownIsProcess ==
    /\ Down \in Process /\ Down.at = "down"
    /\ "down" \notin Generating \cup Loaded \cup Keyed
BY DEF Down, Process, Points, Generating, Loaded, Keyed

LEMMA Goes ==
    ASSUME p \in [Nodes -> Process], NEW n \in Nodes, NEW q \in Points, Goto(n, q)
    PROVE  /\ p' \in [Nodes -> Process]
           /\ p'[n].at = q
           /\ p'[n].priv = p[n].priv /\ p'[n].pub = p[n].pub
           /\ p'[n].kid = p[n].kid /\ p'[n].off = p[n].off
           /\ \A m \in Nodes : m # n => p'[m] = p[m]
<1>1. p[n] \in Process /\ p'[n] = [p[n] EXCEPT !.at = q]
  BY DEF Goto
<1>2. /\ p'[n] \in Process /\ p'[n].at = q
      /\ p'[n].priv = p[n].priv /\ p'[n].pub = p[n].pub
      /\ p'[n].kid = p[n].kid /\ p'[n].off = p[n].off
  BY <1>1 DEF Process
<1> QED
  BY <1>2 DEF Goto

LEMMA Exits ==
    ASSUME p \in [Nodes -> Process], NEW n \in Nodes, Exit(n)
    PROVE  /\ p' \in [Nodes -> Process]
           /\ p'[n].at = "down"
           /\ \A m \in Nodes : m # n => p'[m] = p[m]
BY DownIsProcess DEF Exit

LEMMA KidUsed ==
    ASSUME p \in [Nodes -> Process], NEW n \in Nodes, NEW kid \in Kids, UseKid(n, kid)
    PROVE  /\ p' \in [Nodes -> Process]
           /\ p'[n].at \in Keyed
           /\ p'[n].priv = p[n].priv /\ p'[n].pub = p[n].pub
           /\ p'[n].kid = kid
           /\ \A m \in Nodes : m # n => p'[m] = p[m]
<1> DEFINE q == IF AllowDefault THEN "client" ELSE AfterClient(n)
<1>1. q \in Keyed /\ q \in Points
  BY PointsKnown DEF Keyed, AfterClient
<1>2. p' = [p EXCEPT ![n].kid = kid, ![n].at = q]
  BY DEF UseKid
<1> HIDE DEF q
<1>3. p[n] \in Process /\ p'[n] = [p[n] EXCEPT !.kid = kid, !.at = q]
  BY <1>2
<1>4. /\ p'[n] \in Process /\ p'[n].at = q /\ p'[n].kid = kid
      /\ p'[n].priv = p[n].priv /\ p'[n].pub = p[n].pub
  BY <1>1, <1>3 DEF Process
<1> QED
  BY <1>1, <1>2, <1>4

-----------------------------------------------------------------------------
(* Steps that leave files and keys alone.                                  *)

\* What the process of n claims about the files and the keys.
Knows(n) == Making(n) /\ KeysRead(n) /\ KidKnown(n)

\* The tables and files that no key depends on may change.
LEMMA Quiet ==
    ASSUME NodeInv, UNCHANGED <<cwd, volume, keysDirs, disk, generated, jwks>>,
           rows' \in [Tables -> RowStates], crashes' \in 0 .. MaxCrashes,
           edits' \in 0 .. MaxEdits,
           p' \in [Nodes -> Process], NEW n \in Nodes,
           \A m \in Nodes : m # n => p'[m] = p[m],
           p'[n].at \notin Generating,
           p'[n].at \in Keyed => p'[n].kid \in Kids,
           Knows(n)'
    PROVE  NodeInv'
<1>1. NodeTypeOK'
  BY DEF NodeInv, NodeTypeOK
<1>2. OneMaker' /\ PairsMatch'
  BY DEF NodeInv, OneMaker, PairsMatch, InOwnKeys
<1>3. \A m \in Nodes : m # n => Knows(m)'
  BY DEF NodeInv, Knows, Making, KeysRead, KidKnown, Published, Active, InOwnKeys
<1> QED
  BY <1>1, <1>2, <1>3 DEF NodeInv, Knows

\* The points where a node has nothing to lose.
LEMMA Unburdened ==
    ASSUME NEW n \in Nodes,
           p'[n].at \notin Generating \cup Loaded \cup Keyed \cup {"load_pub"}
    PROVE  Knows(n)'
BY DEF Knows, Making, KeysRead, KidKnown, Generating

\* A loaded node goes on.
LEMMA GoesOn ==
    ASSUME NodeInv, NEW n \in Nodes, UNCHANGED <<cwd, volume, jwks>>,
           p[n].at \in Keyed \/ (p[n].at \in Loaded /\ p'[n].at \in Loaded),
           p'[n].at \in Loaded \cup Keyed,
           p'[n].priv = p[n].priv, p'[n].pub = p[n].pub,
           p'[n].kid = p[n].kid, p'[n].off = p[n].off
    PROVE  Knows(n)' /\ p'[n].at \notin Generating
           /\ (p'[n].at \in Keyed => p'[n].kid \in Kids)
<1>1. p'[n].at \notin Generating \cup {"load_pub"}
  BY DEF Generating, Loaded, Keyed
<1>2. KeysRead(n) /\ KidKnown(n) /\ (p[n].at \in Keyed => p[n].kid \in Kids)
  BY DEF NodeInv, NodeTypeOK
<1>3. p[n].at \in Loaded /\ p'[n].at \in Loaded => p'[n].at \notin Keyed
  BY DEF Loaded, Keyed
<1>4. Making(n)'
  BY <1>1 DEF Making, Generating
<1>5. KeysRead(n)' /\ KidKnown(n)'
  BY <1>1, <1>2, <1>3 DEF KeysRead, KidKnown, Published, Active, InOwnKeys
<1> QED
  BY <1>1, <1>2, <1>3, <1>4, <1>5 DEF Knows

-----------------------------------------------------------------------------
(* The steps of start-up that hold no key yet, and every exit.             *)

Early == {"down", "root", "root_create", "startup", "metadata", "metadata_create",
          "load_priv", "mkdir"}

\* Files and keys as they are; rows, counters and one process may change.
Sideways == /\ UNCHANGED <<cwd, volume, keysDirs, disk, generated, jwks>>
            /\ rows' \in [Tables -> RowStates]
            /\ crashes' \in 0 .. MaxCrashes /\ edits' \in 0 .. MaxEdits

LEMMA StandsSideways ==
    ASSUME NodeInv, UNCHANGED <<fileVars, tableVars, envVars>>
    PROVE  Sideways
BY DEF NodeInv, NodeTypeOK, Sideways, fileVars, tableVars, envVars

LEMMA EarlyKeeps ==
    ASSUME NodeInv, Sideways, NEW n \in Nodes,
           \/ \E q \in Early : Goto(n, q)
           \/ Exit(n)
    PROVE  NodeInv'
<1>1. p \in [Nodes -> Process]
  BY DEF NodeInv, NodeTypeOK
<1>2. /\ p' \in [Nodes -> Process] /\ p'[n].at \in Early
      /\ \A m \in Nodes : m # n => p'[m] = p[m]
  <2>1. Early \subseteq Points /\ "down" \in Early
    BY DEF Early, Points
  <2>2. CASE Exit(n)
    BY <1>1, <2>1, <2>2, Exits
  <2>3. ASSUME NEW q \in Early, Goto(n, q)
        PROVE  /\ p' \in [Nodes -> Process] /\ p'[n].at \in Early
               /\ \A m \in Nodes : m # n => p'[m] = p[m]
    BY <1>1, <2>1, <2>3, Goes
  <2> QED
    BY <2>2, <2>3
<1>3. p'[n].at \notin Generating \cup Loaded \cup Keyed \cup {"load_pub"}
  BY <1>2 DEF Early, Generating, Loaded, Keyed
<1> QED
  BY <1>2, <1>3, Unburdened, Quiet DEF Sideways

LEMMA InsertSideways ==
    ASSUME NodeInv, NEW n \in Nodes, NEW here, NEW table \in Tables, NEW next,
           Insert(n, here, table, next)
    PROVE  Sideways /\ (Goto(n, next) \/ Exit(n)) /\ p[n].at = here
BY DEF Insert, At, NodeInv, NodeTypeOK, RowStates, Sideways, fileVars, envVars

LEMMA ProbeSideways ==
    ASSUME NodeInv, NEW n \in Nodes, NEW here, NEW table, NEW insert, NEW next,
           Probe(n, here, table, insert, next)
    PROVE  Sideways /\ (Goto(n, next) \/ Goto(n, insert)) /\ p[n].at = here
BY StandsSideways DEF Probe, At

LEMMA StartKeeps ==
    ASSUME NodeInv, NEW n \in Nodes,
           \/ Launch(n) \/ CheckRootUser(n) \/ createRootAccount(n)
           \/ findStartupRecord(n) \/ upsertMetadata(n) \/ MkdirFails(n)
           \/ CloseDB(n) \/ Crash(n)
    PROVE  NodeInv'
<1> USE DEF Early
<1>1. CASE Launch(n) \/ MkdirFails(n) \/ CloseDB(n)
  BY <1>1, StandsSideways, EarlyKeeps DEF Launch, MkdirFails, CloseDB
<1>2. CASE CheckRootUser(n)
  BY <1>2, ProbeSideways, EarlyKeeps DEF CheckRootUser
<1>3. CASE createRootAccount(n)
  <2>1. "root" \in Tables
    BY DEF Tables
  <2> QED
    BY <1>3, <2>1, InsertSideways, EarlyKeeps DEF createRootAccount
<1>4. CASE upsertMetadata(n)
  <2>1. "metadata" \in Tables
    BY DEF Tables
  <2> QED
    BY <1>4, <2>1, InsertSideways, ProbeSideways, EarlyKeeps DEF upsertMetadata
<1>5. CASE findStartupRecord(n)
  <2> DEFINE found == rows["startup"] = "present"
  <2>1. /\ p[n] \in Process /\ p \in [Nodes -> Process] /\ found \in BOOLEAN
        /\ p' = [p EXCEPT ![n].at = "metadata", ![n].found = found]
        /\ Sideways
    BY <1>5, StandsSideways DEF findStartupRecord, NodeInv, NodeTypeOK
  <2> HIDE DEF found
  <2>2. p'[n] = [p[n] EXCEPT !.at = "metadata", !.found = found]
    BY <2>1
  <2>3. p'[n] \in Process /\ p'[n].at = "metadata"
    BY <2>1, <2>2, PointsKnown DEF Process
  <2>4. p' \in [Nodes -> Process] /\ \A m \in Nodes : m # n => p'[m] = p[m]
    BY <2>1, <2>3
  <2>5. p'[n].at \notin Generating \cup Loaded \cup Keyed \cup {"load_pub"}
    BY <2>3 DEF Generating, Loaded, Keyed
  <2> QED
    BY <2>1, <2>4, <2>5, Unburdened, Quiet DEF Sideways
<1>6. CASE Crash(n)
  <2>1. Exit(n) /\ UNCHANGED <<fileVars, tableVars, cwd, volume, edits>>
        /\ crashes < MaxCrashes /\ crashes' = crashes + 1
    BY <1>6 DEF Crash
  <2>2. Sideways
    BY <2>1, NodeAssumption DEF Sideways, NodeInv, NodeTypeOK, fileVars, tableVars
  <2> QED
    BY <2>1, <2>2, EarlyKeeps
<1> QED
  BY <1>1, <1>2, <1>3, <1>4, <1>5, <1>6

-----------------------------------------------------------------------------
(* LoadKey.                                                                *)

LEMMA NotFoundKeeps ==
    ASSUME NodeInv, NEW n \in Nodes, KeyNotFound(n),
           UNCHANGED <<fileVars, tableVars, envVars>>
    PROVE  NodeInv'
BY StandsSideways, EarlyKeeps DEF KeyNotFound, Early

LEMMA LoadPrivKeeps ==
    ASSUME NodeInv, NEW n \in Nodes, LoadPriv(n)
    PROVE  NodeInv'
<1>1. CASE KeyNotFound(n)
  BY <1>1, NotFoundKeeps DEF LoadPriv
<1>2. CASE ~KeyNotFound(n)
  <2> DEFINE d == disk[volume[n]]
  <2>1. /\ d \in Disk /\ d.priv # None
        /\ p' = [p EXCEPT ![n].at = "load_pub", ![n].priv = d.priv]
        /\ p \in [Nodes -> Process] /\ p[n] \in Process
        /\ Sideways
    BY <1>2, StandsSideways DEF LoadPriv, MyDisk, NodeInv, NodeTypeOK
  <2>2. d.priv \in Keys \cup {Torn}
    BY <2>1 DEF Disk
  <2>3. p'[n] = [p[n] EXCEPT !.at = "load_pub", !.priv = d.priv]
    BY <2>1
  <2> HIDE DEF d
  <2>4. p'[n] \in Process /\ p'[n].at = "load_pub" /\ p'[n].priv = d.priv
    BY <2>1, <2>2, <2>3, PointsKnown DEF Process
  <2>5. p' \in [Nodes -> Process] /\ \A m \in Nodes : m # n => p'[m] = p[m]
    BY <2>1, <2>4
  <2>6. p'[n].at \notin Generating \cup Loaded \cup Keyed
    BY <2>4 DEF Generating, Loaded, Keyed
  <2>7. disk'[volume'[n]] = d
    BY <2>1 DEF Sideways, d
  <2>8. Knows(n)'
    BY <2>2, <2>4, <2>6, <2>7 DEF Knows, Making, KeysRead, KidKnown, Generating
  <2> QED
    BY <2>1, <2>5, <2>6, <2>8, Quiet DEF Sideways
<1> QED
  BY <1>1, <1>2

\* Both files were whole when they were read: they are one pair.
LEMMA LoadPubKeeps ==
    ASSUME NodeInv, NEW n \in Nodes, LoadPub(n)
    PROVE  NodeInv'
<1>1. CASE KeyNotFound(n)
  BY <1>1, NotFoundKeeps DEF LoadPub
<1>2. CASE Exit(n)
  BY <1>2, StandsSideways, EarlyKeeps DEF LoadPub
<1>3. CASE ~KeyNotFound(n) /\ ~Exit(n)
  <2> DEFINE d == disk[volume[n]]
  <2>1. /\ d \in Disk /\ d.pub # None /\ Torn \notin {p[n].priv, d.pub}
        /\ p' = [p EXCEPT ![n].at = "jwk_match", ![n].pub = d.pub, ![n].made = FALSE]
        /\ p \in [Nodes -> Process] /\ p[n] \in Process
        /\ p[n].at = "load_pub" /\ volume[n] \in Volumes
        /\ Sideways
    BY <1>3, StandsSideways DEF LoadPub, MyDisk, At, NodeInv, NodeTypeOK
  <2>2. d.pub \in Keys
    BY <2>1 DEF Disk
  <2>3. InOwnKeys(volume[n]) => d.pub = p[n].priv
    <3>1. InOwnKeys(volume[n]) => p[n].priv = d.priv /\ p[n].priv \in Keys
      BY <2>1 DEF NodeInv, KeysRead
    <3> QED
      BY <2>1, <2>2, <3>1 DEF NodeInv, PairsMatch, Complete
  <2>4. p'[n] = [p[n] EXCEPT !.at = "jwk_match", !.pub = d.pub, !.made = FALSE]
    BY <2>1
  <2> HIDE DEF d
  <2>5. /\ p'[n] \in Process /\ p'[n].at = "jwk_match"
        /\ p'[n].priv = p[n].priv /\ p'[n].pub = d.pub
    BY <2>1, <2>2, <2>4 DEF Process, Points, Loaded
  <2>6. p' \in [Nodes -> Process] /\ \A m \in Nodes : m # n => p'[m] = p[m]
    BY <2>1, <2>5
  <2>7. p'[n].at \notin Generating \cup Keyed \cup {"load_pub"}
    BY <2>5 DEF Generating, Keyed
  <2>8. Knows(n)'
    BY <2>1, <2>2, <2>3, <2>5, <2>7
    DEF Knows, Making, KeysRead, KidKnown, Generating, Sideways, InOwnKeys
  <2> QED
    BY <2>1, <2>6, <2>7, <2>8, Quiet DEF Sideways
<1> QED
  BY <1>1, <1>2, <1>3
-----------------------------------------------------------------------------
(* GenerateRSAKeyPair.                                                     *)

\* The ./keys is made: under the default paths there were no files.
LEMMA MkdirKeeps ==
    ASSUME NodeInv, NEW n \in Nodes, Mkdir(n)
    PROVE  NodeInv'
<1> DEFINE k == generated + 1
<1>1. /\ cwd \in [Nodes -> Dirs] /\ volume \in [Nodes -> Volumes]
      /\ cwd[n] \in Dirs \ keysDirs /\ keysDirs' = keysDirs \cup {cwd[n]}
      /\ k \in Keys /\ k \in Nat /\ generated' = k
      /\ p \in [Nodes -> Process] /\ p[n] \in Process
      /\ p' = [p EXCEPT ![n].at = "open_priv", ![n].priv = k]
      /\ UNCHANGED <<cwd, volume, disk, rows, jwks, crashes, edits>>
  BY DEF Mkdir, NodeInv, NodeTypeOK, Keys, tableVars, envVars
<1> HIDE DEF k
<1>2. p'[n] = [p[n] EXCEPT !.at = "open_priv", !.priv = k]
  BY <1>1
<1>3. "open_priv" \in Points /\ "open_priv" \in Generating
      /\ "open_priv" \notin Loaded \cup Keyed \cup {"load_pub"}
  BY DEF Points, Generating, Loaded, Keyed
<1>4. p'[n] \in Process /\ p'[n].at = "open_priv" /\ p'[n].priv = k
  BY <1>1, <1>2, <1>3 DEF Process
<1>5. p' \in [Nodes -> Process] /\ \A m \in Nodes : m # n => p'[m] = p[m]
  BY <1>1, <1>4
<1>6. NodeTypeOK'
  BY <1>1, <1>3, <1>4, <1>5 DEF NodeInv, NodeTypeOK
<1>7. OneMaker'
  BY <1>1, <1>5 DEF NodeInv, OneMaker, Making
<1>8. PairsMatch'
  BY <1>1 DEF NodeInv, PairsMatch, InOwnKeys
<1>9. ASSUME NEW m \in Nodes, m # n  PROVE  Knows(m)'
  BY <1>1, <1>5, <1>9
  DEF NodeInv, Knows, Making, KeysRead, KidKnown, Published, Active, InOwnKeys
<1>10. Making(n)'
  <2>1. InOwnKeys(volume[n]) => Under[volume[n]] \notin keysDirs
    BY <1>1 DEF InOwnKeys
  <2>2. InOwnKeys(volume[n]) =>
            disk[volume[n]].priv = None /\ disk[volume[n]].pub = None
    BY <1>1, <2>1 DEF NodeInv, PairsMatch
  <2> QED
    BY <1>1, <1>4, <2>2 DEF Making, InOwnKeys
<1>11. KeysRead(n)' /\ KidKnown(n)'
  BY <1>3, <1>4 DEF KeysRead, KidKnown
<1> QED
  BY <1>6, <1>7, <1>8, <1>9, <1>10, <1>11 DEF NodeInv, Knows

\* What a maker may write: under the default paths it is the only one.
Written(n, d) ==
    InOwnKeys(volume[n]) =>
        /\ Complete(d) => d.priv = d.pub
        /\ disk[volume[n]].priv \in Keys => d.priv = disk[volume[n]].priv

LEMMA MakerKeeps ==
    ASSUME NodeInv, NEW n \in Nodes, NEW d \in Disk,
           disk' = [disk EXCEPT ![volume[n]] = d],
           UNCHANGED <<keysDirs, generated, tableVars, envVars>>,
           p' \in [Nodes -> Process], \A m \in Nodes : m # n => p'[m] = p[m],
           p[n].at \in Generating, p'[n].at \in Generating \cup {"load_priv"},
           Written(n, d), Making(n)'
    PROVE  NodeInv'
<1>1. /\ cwd \in [Nodes -> Dirs] /\ volume \in [Nodes -> Volumes]
      /\ disk \in [Volumes -> Disk] /\ cwd[n] \in keysDirs
      /\ UNCHANGED <<cwd, volume, keysDirs, generated, rows, jwks, crashes, edits>>
  BY DEF NodeInv, NodeTypeOK, Making, tableVars, envVars
<1>2. p'[n].at \notin Loaded \cup Keyed \cup {"load_pub"}
  BY DEF Generating, Loaded, Keyed
<1>3. NodeTypeOK'
  <2>1. disk' \in [Volumes -> Disk]
    BY <1>1
  <2>2. \A m \in Nodes : p'[m].at \in Keyed => p'[m].kid \in Kids
    BY <1>2 DEF NodeInv, NodeTypeOK
  <2> QED
    BY <1>1, <2>1, <2>2 DEF NodeInv, NodeTypeOK
<1>4. ASSUME NEW m \in Nodes, m # n, p[m].at \in Generating, InOwnKeys(volume[m])
      PROVE  volume[m] # volume[n]
  <2>1. cwd[m] # cwd[n]
    BY <1>4 DEF NodeInv, OneMaker
  <2> QED
    BY <1>4, <2>1 DEF InOwnKeys
<1>5. OneMaker'
  BY <1>1 DEF NodeInv, OneMaker
<1>6. PairsMatch'
  <2> SUFFICES ASSUME NEW v \in Volumes, InOwnKeys(v)
               PROVE  /\ Under[v] \notin keysDirs =>
                             disk'[v].priv = None /\ disk'[v].pub = None
                      /\ Complete(disk'[v]) => disk'[v].priv = disk'[v].pub
    BY <1>1 DEF PairsMatch, InOwnKeys, Complete
  <2>1. CASE v = volume[n]
    <3>1. Under[v] \in keysDirs /\ disk'[v] = d
      BY <1>1, <2>1 DEF InOwnKeys
    <3> QED
      BY <2>1, <3>1 DEF Written
  <2>2. CASE v # volume[n]
    <3>1. disk'[v] = disk[v]
      BY <1>1, <2>2
    <3> QED
      BY <3>1 DEF NodeInv, PairsMatch
  <2> QED
    BY <2>1, <2>2
<1>7. ASSUME NEW m \in Nodes, m # n  PROVE  Knows(m)'
  <2>1. KidKnown(m)'
    BY <1>1, <1>7 DEF NodeInv, KidKnown, Published, Active
  <2>2. Making(m)'
    <3>1. CASE p[m].at \in Generating
      BY <1>1, <1>4, <1>7, <3>1 DEF NodeInv, Making, InOwnKeys
    <3>2. CASE p[m].at \notin Generating
      BY <1>7, <3>2 DEF Making, Generating
    <3> QED
      BY <3>1, <3>2
  <2>3. KeysRead(m)'
    <3>1. /\ InOwnKeys(volume[m])' = InOwnKeys(volume[m])
          /\ disk'[volume[m]] = IF volume[m] = volume[n] THEN d ELSE disk[volume[m]]
          /\ p'[m] = p[m] /\ volume'[m] = volume[m]
      BY <1>1, <1>7 DEF InOwnKeys
    <3>2. KeysRead(m)
      BY DEF NodeInv
    <3> QED
      BY <3>1, <3>2 DEF KeysRead, Written
  <2> QED
    BY <2>1, <2>2, <2>3 DEF Knows
<1>8. KeysRead(n)' /\ KidKnown(n)'
  BY <1>2 DEF KeysRead, KidKnown
<1> QED
  BY <1>3, <1>5, <1>6, <1>7, <1>8 DEF NodeInv, Knows

\* Opening a file at its turn.
LEMMA OpenKeeps ==
    ASSUME NodeInv, NEW n \in Nodes,
           \/ OpenFile(n, "open_priv", "priv", "fill_priv")
           \/ OpenFile(n, "open_pub", "pub", "fill_pub")
    PROVE  NodeInv'
<1> DEFINE c == disk[volume[n]]
           Opens(file, next) == /\ disk' = [disk EXCEPT ![volume[n]][file] = Torn]
                                /\ Goto(n, next)
<1>1. /\ volume \in [Nodes -> Volumes] /\ disk \in [Volumes -> Disk] /\ c \in Disk
      /\ p \in [Nodes -> Process] /\ p[n] \in Process /\ p[n].at \in Generating
      /\ UNCHANGED <<keysDirs, generated, tableVars, envVars>>
      /\ UNCHANGED <<cwd, volume, keysDirs>>
      /\ Making(n) /\ Torn \notin Keys /\ None \notin Keys /\ Torn # None
  BY NodeAssumption DEF OpenFile, NodeInv, NodeTypeOK, At, Generating, envVars, Keys
<1>2. CASE Exit(n) /\ UNCHANGED disk
  <2>1. UNCHANGED <<fileVars, tableVars, envVars>>
    BY <1>1, <1>2 DEF fileVars
  <2> QED
    BY <1>2, <2>1, StandsSideways, EarlyKeeps
<1>3. \/ Exit(n) /\ UNCHANGED disk
      \/ p[n].at = "open_priv" /\ Opens("priv", "fill_priv")
      \/ p[n].at = "open_pub" /\ Opens("pub", "fill_pub")
  BY DEF OpenFile, At
<1>4. CASE p[n].at = "open_priv" /\ Opens("priv", "fill_priv")
  <2> DEFINE d == [c EXCEPT !.priv = Torn]
  <2>1. /\ cwd[n] \in keysDirs /\ p[n].priv \in Keys
        /\ InOwnKeys(volume[n]) => c.priv = None /\ c.pub = None
    BY <1>1, <1>4 DEF Making
  <2>2. d \in Disk /\ d.priv = Torn /\ d.pub = c.pub
    BY <1>1 DEF Disk
  <2>3. disk' = [disk EXCEPT ![volume[n]] = d]
    BY <1>1, <1>4
  <2> HIDE DEF d
  <2>4. "fill_priv" \in Points /\ "fill_priv" \in Generating
    BY DEF Points, Generating
  <2>5. /\ p' \in [Nodes -> Process] /\ p'[n].at = "fill_priv"
        /\ p'[n].priv = p[n].priv
        /\ \A m \in Nodes : m # n => p'[m] = p[m]
    BY <1>1, <1>4, <2>4, Goes
  <2>6. disk'[volume'[n]] = d
    BY <1>1, <2>3
  <2>7. Making(n)'
    BY <1>1, <2>1, <2>2, <2>5, <2>6 DEF Making, InOwnKeys
  <2>8. Written(n, d)
    BY <1>1, <2>1, <2>2 DEF Written, Complete
  <2> QED
    BY <1>1, <2>2, <2>3, <2>4, <2>5, <2>7, <2>8, MakerKeeps
<1>5. CASE p[n].at = "open_pub" /\ Opens("pub", "fill_pub")
  <2> DEFINE d == [c EXCEPT !.pub = Torn]
  <2>1. /\ cwd[n] \in keysDirs /\ p[n].priv \in Keys
        /\ InOwnKeys(volume[n]) => c.priv = p[n].priv /\ c.pub = None
    BY <1>1, <1>5 DEF Making
  <2>2. d \in Disk /\ d.priv = c.priv /\ d.pub = Torn
    BY <1>1 DEF Disk
  <2>3. disk' = [disk EXCEPT ![volume[n]] = d]
    BY <1>1, <1>5
  <2> HIDE DEF d
  <2>4. "fill_pub" \in Points /\ "fill_pub" \in Generating
    BY DEF Points, Generating
  <2>5. /\ p' \in [Nodes -> Process] /\ p'[n].at = "fill_pub"
        /\ p'[n].priv = p[n].priv
        /\ \A m \in Nodes : m # n => p'[m] = p[m]
    BY <1>1, <1>5, <2>4, Goes
  <2>6. disk'[volume'[n]] = d
    BY <1>1, <2>3
  <2>7. Making(n)'
    BY <1>1, <2>1, <2>2, <2>5, <2>6 DEF Making, InOwnKeys
  <2>8. Written(n, d)
    BY <1>1, <2>1, <2>2 DEF Written, Complete
  <2> QED
    BY <1>1, <2>2, <2>3, <2>4, <2>5, <2>7, <2>8, MakerKeeps
<1> QED
  BY <1>2, <1>3, <1>4, <1>5

\* Writing its half of the pair.
LEMMA FillKeeps ==
    ASSUME NodeInv, NEW n \in Nodes,
           \/ FillFile(n, "fill_priv", "priv", "open_pub")
           \/ FillFile(n, "fill_pub", "pub", "load_priv")
    PROVE  NodeInv'
<1> DEFINE c == disk[volume[n]]
           q == IF At(n, "fill_priv") THEN "open_pub" ELSE "load_priv"
           w == q = "load_priv"
<1>1. /\ volume \in [Nodes -> Volumes] /\ disk \in [Volumes -> Disk] /\ c \in Disk
      /\ p \in [Nodes -> Process] /\ p[n] \in Process
      /\ UNCHANGED <<keysDirs, generated, tableVars, envVars>>
      /\ UNCHANGED <<cwd, volume, keysDirs>>
      /\ Making(n) /\ Torn \notin Keys /\ None \notin Keys
  BY NodeAssumption DEF FillFile, NodeInv, NodeTypeOK, envVars, Keys
<1>2. p[n].at \in {"fill_priv", "fill_pub"} /\ p[n].at \in Generating
  BY DEF FillFile, At, Generating
<1>3. p' = [p EXCEPT ![n].at = q, ![n].made = w]
  BY <1>2 DEF FillFile, At
<1>4. /\ q \in Points /\ w \in BOOLEAN /\ q \in Generating \cup {"load_priv"}
      /\ p[n].at = "fill_priv" => q = "open_pub"
      /\ p[n].at = "fill_pub" => q = "load_priv"
  BY DEF Points, Generating, At
<1> HIDE DEF q, w
<1>5. p'[n] = [p[n] EXCEPT !.at = q, !.made = w]
  BY <1>1, <1>3
<1>6. p'[n] \in Process /\ p'[n].at = q /\ p'[n].priv = p[n].priv
  BY <1>1, <1>4, <1>5 DEF Process
<1>7. p' \in [Nodes -> Process] /\ \A m \in Nodes : m # n => p'[m] = p[m]
  BY <1>1, <1>3, <1>6
<1>8. cwd[n] \in keysDirs /\ p[n].priv \in Keys
  BY <1>1, <1>2 DEF Making
<1>9. CASE p[n].at = "fill_priv"
  <2> DEFINE d == [c EXCEPT !.priv = p[n].priv]
  <2>1. InOwnKeys(volume[n]) => c.priv = Torn /\ c.pub = None
    BY <1>1, <1>9 DEF Making
  <2>2. d \in Disk /\ d.priv = p[n].priv /\ d.pub = c.pub
    BY <1>1, <1>8 DEF Disk
  <2>3. disk' = [disk EXCEPT ![volume[n]] = d]
    BY <1>1, <1>9 DEF FillFile, At
  <2> HIDE DEF d
  <2>4. disk'[volume'[n]] = d
    BY <1>1, <2>3
  <2>5. p'[n].at = "open_pub"
    BY <1>4, <1>6, <1>9
  <2>6. Making(n)'
    BY <1>1, <1>6, <1>8, <2>1, <2>2, <2>4, <2>5 DEF Making, InOwnKeys
  <2>7. Written(n, d)
    BY <1>1, <2>1, <2>2 DEF Written, Complete
  <2> QED
    BY <1>1, <1>2, <1>4, <1>6, <1>7, <2>2, <2>3, <2>6, <2>7, MakerKeeps
<1>10. CASE p[n].at = "fill_pub"
  <2> DEFINE d == [c EXCEPT !.pub = p[n].priv]
  <2>1. InOwnKeys(volume[n]) => c.priv = p[n].priv
    BY <1>1, <1>10 DEF Making
  <2>2. d \in Disk /\ d.priv = c.priv /\ d.pub = p[n].priv
    BY <1>1, <1>8 DEF Disk
  <2>3. disk' = [disk EXCEPT ![volume[n]] = d]
    BY <1>1, <1>10 DEF FillFile, At
  <2> HIDE DEF d
  <2>4. p'[n].at = "load_priv"
    BY <1>4, <1>6, <1>10
  <2>5. Making(n)'
    BY <2>4 DEF Making, Generating
  <2>6. Written(n, d)
    BY <2>1, <2>2 DEF Written
  <2> QED
    BY <1>1, <1>2, <1>4, <1>6, <1>7, <2>2, <2>3, <2>5, <2>6, MakerKeeps
<1> QED
  BY <1>2, <1>9, <1>10
-----------------------------------------------------------------------------
(* ensureActiveJWK.                                                        *)

\* A loaded node takes a kid under which its key is published.
LEMMA KidKeeps ==
    ASSUME NodeInv, NEW n \in Nodes, NEW kid \in Kids, UseKid(n, kid),
           p[n].at \in Loaded, UNCHANGED <<fileVars, rows, envVars>>,
           jwks' \in Seq(JwkKey), Published \subseteq Published',
           <<kid, p[n].pub>> \in Published'
    PROVE  NodeInv'
<1>1. /\ p \in [Nodes -> Process]
      /\ UNCHANGED <<cwd, volume, keysDirs, disk, generated, rows, crashes, edits>>
  BY DEF NodeInv, NodeTypeOK, fileVars, envVars
<1>2. /\ p' \in [Nodes -> Process] /\ p'[n].at \in Keyed /\ p'[n].kid = kid
      /\ p'[n].priv = p[n].priv /\ p'[n].pub = p[n].pub
      /\ \A m \in Nodes : m # n => p'[m] = p[m]
  BY <1>1, KidUsed
<1>3. p'[n].at \notin Generating \cup {"load_pub"}
  BY <1>2 DEF Generating, Keyed
<1>4. NodeTypeOK'
  BY <1>1, <1>2 DEF NodeInv, NodeTypeOK
<1>5. OneMaker' /\ PairsMatch'
  BY <1>1, <1>2, <1>3 DEF NodeInv, OneMaker, PairsMatch, InOwnKeys
<1>6. ASSUME NEW m \in Nodes, m # n  PROVE  Knows(m)'
  BY <1>1, <1>2, <1>6 DEF NodeInv, Knows, Making, KeysRead, KidKnown, InOwnKeys
<1>7. Making(n)' /\ KidKnown(n)'
  BY <1>2, <1>3 DEF Making, KidKnown, Generating
<1>8. KeysRead(n)'
  BY <1>1, <1>2, <1>3 DEF NodeInv, KeysRead, InOwnKeys
<1> QED
  BY <1>4, <1>5, <1>6, <1>7, <1>8 DEF NodeInv, Knows

LEMMA LoadedGoes ==
    ASSUME NodeInv, NEW n \in Nodes, p[n].at \in Loaded,
           NEW q \in Loaded, Goto(n, q), UNCHANGED <<fileVars, tableVars, envVars>>
    PROVE  NodeInv'
<1>1. /\ p' \in [Nodes -> Process] /\ p'[n].at = q
      /\ p'[n].priv = p[n].priv /\ p'[n].pub = p[n].pub
      /\ p'[n].kid = p[n].kid /\ p'[n].off = p[n].off
      /\ \A m \in Nodes : m # n => p'[m] = p[m]
  BY PointsKnown, Goes DEF NodeInv, NodeTypeOK
<1> QED
  BY <1>1, GoesOn, StandsSideways, Quiet DEF Sideways

LEMMA RowKnown ==
    ASSUME NodeInv, NEW i \in DOMAIN jwks
    PROVE  /\ jwks \in Seq(JwkKey) /\ jwks[i] \in JwkKey
           /\ jwks[i].kid \in Kids /\ jwks[i].key \in Keys
<1>1. jwks \in Seq(JwkKey)
  BY DEF NodeInv, NodeTypeOK
<1>2. jwks[i] \in JwkKey
  BY <1>1
<1> QED
  BY <1>1, <1>2 DEF JwkKey

LEMMA QueriesKeep ==
    ASSUME NodeInv, NEW n \in Nodes, JwkMatch(n) \/ JwkActive(n)
    PROVE  NodeInv'
<1>1. /\ p[n].at \in Loaded /\ jwks \in Seq(JwkKey)
      /\ {"jwk_active", "jwk_any", "jwk_initial"} \subseteq Loaded
      /\ UNCHANGED <<fileVars, tableVars, envVars>>
      /\ UNCHANGED <<fileVars, rows, envVars>> /\ UNCHANGED jwks
  BY DEF JwkMatch, JwkActive, At, Loaded, NodeInv, NodeTypeOK, tableVars
<1>2. Published' = Published
  BY <1>1 DEF Published, Active
<1>3. \/ \E i \in Active : jwks[i].key = p[n].pub /\ UseKid(n, jwks[i].kid)
      \/ \E q \in Loaded : Goto(n, q)
  BY <1>1 DEF JwkMatch, JwkActive, Matching
<1>4. CASE \E q \in Loaded : Goto(n, q)
  BY <1>1, <1>4, LoadedGoes
<1>5. ASSUME NEW i \in Active, jwks[i].key = p[n].pub, UseKid(n, jwks[i].kid)
      PROVE  NodeInv'
  <2>1. i \in DOMAIN jwks /\ jwks[i].kid \in Kids
    BY RowKnown DEF Active
  <2>2. <<jwks[i].kid, p[n].pub>> \in Published'
    BY <1>2, <1>5 DEF Published
  <2> QED
    BY <1>1, <1>2, <1>5, <2>1, <2>2, KidKeeps
<1> QED
  BY <1>3, <1>4, <1>5

\* Activating a row takes nothing back.
LEMMA AnyKeeps ==
    ASSUME NodeInv, NEW n \in Nodes, JwkAny(n)
    PROVE  NodeInv'
<1>1. /\ p[n].at \in Loaded /\ jwks \in Seq(JwkKey) /\ "jwk_derived" \in Loaded
      /\ UNCHANGED <<fileVars, rows, envVars>>
  BY DEF JwkAny, At, Loaded, NodeInv, NodeTypeOK
<1>2. CASE Goto(n, "jwk_derived") /\ UNCHANGED jwks
  <2>1. UNCHANGED <<fileVars, tableVars, envVars>>
    BY <1>1, <1>2 DEF tableVars
  <2> QED
    BY <1>1, <1>2, <2>1, LoadedGoes
<1>3. ASSUME NEW i \in Matching(n), UseKid(n, jwks[i].kid),
             jwks' = [jwks EXCEPT ![i].active = TRUE]
      PROVE  NodeInv'
  <2>1. /\ i \in DOMAIN jwks /\ jwks[i] \in JwkKey
        /\ jwks[i].kid \in Kids /\ jwks[i].key = p[n].pub
    BY <1>3, RowKnown DEF Matching
  <2> DEFINE r == [jwks[i] EXCEPT !.active = TRUE]
  <2>2. /\ r \in JwkKey /\ r.active
        /\ r.kid = jwks[i].kid /\ r.key = jwks[i].key
    BY <2>1 DEF JwkKey
  <2>3. jwks' = [jwks EXCEPT ![i] = r]
    BY <1>3
  <2> HIDE DEF r
  <2>4. /\ jwks' \in Seq(JwkKey) /\ DOMAIN jwks' = DOMAIN jwks
        /\ jwks'[i] = r
        /\ \A k \in DOMAIN jwks : k # i => jwks'[k] = jwks[k]
    BY <1>1, <2>1, <2>2, <2>3
  <2>5. /\ Active \subseteq Active' /\ i \in Active'
        /\ \A k \in DOMAIN jwks :
               jwks'[k].kid = jwks[k].kid /\ jwks'[k].key = jwks[k].key
    BY <2>1, <2>2, <2>4 DEF Active
  <2>6. Published \subseteq Published' /\ <<jwks[i].kid, p[n].pub>> \in Published'
    <3>1. ASSUME NEW k \in Active
          PROVE  <<jwks[k].kid, jwks[k].key>> \in Published'
      BY <2>5 DEF Published, Active
    <3>2. Published \subseteq Published'
      BY <3>1 DEF Published
    <3>3. jwks'[i].kid = jwks[i].kid /\ jwks'[i].key = p[n].pub
      BY <2>1, <2>5
    <3>4. <<jwks[i].kid, p[n].pub>> \in Published'
      BY <2>5, <3>3 DEF Published
    <3> QED
      BY <3>2, <3>4
  <2> QED
    BY <1>1, <1>3, <2>1, <2>4, <2>6, KidKeeps
<1> QED
  BY <1>2, <1>3 DEF JwkAny

\* Nor does a new row.
LEMMA InsertKeeps ==
    ASSUME NodeInv, NEW n \in Nodes,
           JwkInsert(n, "jwk_initial", Initial) \/ JwkInsert(n, "jwk_derived", p[n].pub)
    PROVE  NodeInv'
<1>1. /\ p[n].at \in Loaded /\ jwks \in Seq(JwkKey)
      /\ UNCHANGED <<fileVars, rows, envVars>>
      /\ p[n].pub \in Keys
  BY DEF JwkInsert, At, Loaded, NodeInv, NodeTypeOK, KeysRead
<1>2. CASE Exit(n) /\ UNCHANGED jwks
  BY <1>1, <1>2, StandsSideways, EarlyKeeps DEF tableVars
<1>3. ASSUME NEW kid \in Kids, UseKid(n, kid),
             jwks' = Append(jwks, [kid |-> kid, key |-> p[n].pub, active |-> TRUE])
      PROVE  NodeInv'
  <2> DEFINE r == [kid |-> kid, key |-> p[n].pub, active |-> TRUE]
             k == Len(jwks) + 1
  <2>1. r \in JwkKey /\ r.active /\ r.kid = kid /\ r.key = p[n].pub
    BY <1>1 DEF JwkKey
  <2> HIDE DEF r
  <2>2. jwks' = Append(jwks, r)
    BY <1>3 DEF r
  <2>3. /\ jwks' \in Seq(JwkKey) /\ k \in DOMAIN jwks' /\ jwks'[k] = r
        /\ \A i \in DOMAIN jwks : i \in DOMAIN jwks' /\ jwks'[i] = jwks[i]
    BY <1>1, <2>1, <2>2
  <2> HIDE DEF k
  <2>4. Published \subseteq Published'
    BY <2>3 DEF Published, Active
  <2>5. k \in Active'
    BY <2>1, <2>3 DEF Active
  <2>6. <<kid, p[n].pub>> \in Published'
    BY <2>1, <2>3, <2>5 DEF Published
  <2> QED
    BY <1>1, <1>3, <2>3, <2>4, <2>6, KidKeeps
<1> QED
  BY <1>1, <1>2, <1>3 DEF JwkInsert, Kids

-----------------------------------------------------------------------------
(* A node that has its kid.                                                *)

\* A process keeps its keys and stays where it was, or among the keyed points.
LEMMA Resumes ==
    ASSUME NodeInv, Sideways, NEW n \in Nodes,
           p' \in [Nodes -> Process], \A m \in Nodes : m # n => p'[m] = p[m],
           p'[n].at = p[n].at \/ {p[n].at, p'[n].at} \subseteq Keyed,
           p'[n].priv = p[n].priv, p'[n].pub = p[n].pub,
           p'[n].kid = p[n].kid, p'[n].off = p[n].off
    PROVE  NodeInv'
<1>1. UNCHANGED <<cwd, volume, keysDirs, disk, generated, jwks>>
  BY DEF Sideways
<1>2. /\ p'[n].at \in Generating \cup Loaded \cup {"load_pub"} => p'[n].at = p[n].at
      /\ p'[n].at \in Keyed => p[n].at \in Keyed
  BY DEF Generating, Loaded, Keyed
<1>3. NodeTypeOK'
  BY <1>1, <1>2 DEF Sideways, NodeInv, NodeTypeOK
<1>4. OneMaker'
  BY <1>1, <1>2 DEF NodeInv, OneMaker
<1>5. PairsMatch'
  BY <1>1 DEF NodeInv, PairsMatch, InOwnKeys
<1>6. ASSUME NEW m \in Nodes  PROVE  Knows(m)'
  <2>1. Making(m)'
    BY <1>1, <1>2 DEF NodeInv, Making, Generating, InOwnKeys
  <2>2. KeysRead(m)'
    BY <1>1, <1>2 DEF NodeInv, KeysRead, InOwnKeys
  <2>3. KidKnown(m)'
    BY <1>1, <1>2 DEF NodeInv, KidKnown, Published, Active
  <2> QED
    BY <2>1, <2>2, <2>3 DEF Knows
<1> QED
  BY <1>3, <1>4, <1>5, <1>6 DEF NodeInv, Knows

LEMMA KeyedGoes ==
    ASSUME NodeInv, Sideways, NEW n \in Nodes, p[n].at \in Keyed,
           NEW q \in Keyed, Goto(n, q)
    PROVE  NodeInv'
<1>1. p \in [Nodes -> Process] /\ q \in Points
  BY PointsKnown DEF NodeInv, NodeTypeOK
<1> QED
  BY <1>1, Goes, Resumes

LEMMA ClientKeeps ==
    ASSUME NodeInv, NEW n \in Nodes, ensureDefaultClient(n) \/ CreateStartup(n)
    PROVE  NodeInv'
<1>1. /\ {"client", "client_create", "startup_create", "listen"} \subseteq Keyed
      /\ AfterClient(n) \in Keyed
      /\ {"client", "startup"} \subseteq Tables
  BY DEF Keyed, AfterClient, Tables
<1>2. /\ Sideways /\ p[n].at \in Keyed
      /\ (\E q \in Keyed : Goto(n, q)) \/ Exit(n)
  <2>1. CASE ensureDefaultClient(n)
    BY <1>1, <2>1, ProbeSideways, InsertSideways DEF ensureDefaultClient
  <2>2. CASE CreateStartup(n)
    BY <1>1, <2>2, InsertSideways DEF CreateStartup
  <2> QED
    BY <2>1, <2>2
<1> QED
  BY <1>2, KeyedGoes, EarlyKeeps

LEMMA ServingKeeps ==
    ASSUME NodeInv, NEW n \in Nodes,
           \/ Serve(n) \/ ListenFails(n) \/ Terminate(n) \/ Shutdown(n)
           \/ CleanupPass(n) \/ CleanupReturns(n)
    PROVE  NodeInv'
<1>1. p \in [Nodes -> Process] /\ p[n] \in Process
  BY DEF NodeInv, NodeTypeOK
<1>2. Sideways
  <2>1. CASE UNCHANGED <<fileVars, tableVars, envVars>>
    BY <2>1, StandsSideways
  <2>2. CASE ListenFails(n)
    BY <2>2, NodeAssumption
    DEF ListenFails, NodeInv, NodeTypeOK, Sideways, fileVars, tableVars
  <2> QED
    BY <2>1, <2>2 DEF Serve, Terminate, Shutdown, CleanupPass, CleanupReturns
<1>3. {"listen", "serving", "draining", "stopping"} \subseteq Keyed \cap Points
  BY DEF Keyed, Points
<1>4. CASE Serve(n)
  <2>1. p' = [p EXCEPT ![n].at = "serving", ![n].cleanup = "working",
                       ![n].found = FALSE]
        /\ p[n].at = "listen"
    BY <1>4 DEF Serve, At
  <2>2. p'[n] = [p[n] EXCEPT !.at = "serving", !.cleanup = "working", !.found = FALSE]
    BY <1>1, <2>1
  <2>3. /\ p'[n] \in Process /\ p'[n].at = "serving"
        /\ p'[n].priv = p[n].priv /\ p'[n].pub = p[n].pub
        /\ p'[n].kid = p[n].kid /\ p'[n].off = p[n].off
    BY <1>1, <1>3, <2>2 DEF Process
  <2> QED
    BY <1>1, <1>2, <1>3, <2>1, <2>3, Resumes
<1>5. ASSUME NEW q \in {"draining", "stopping"}, p[n].at \in {"serving", "draining"},
             p' = [p EXCEPT ![n].at = q, ![n].cancelled = TRUE]
      PROVE  NodeInv'
  <2>1. p'[n] = [p[n] EXCEPT !.at = q, !.cancelled = TRUE]
    BY <1>1, <1>5
  <2>2. q \in Points /\ {p[n].at, q} \subseteq Keyed
    BY <1>3, <1>5
  <2>3. /\ p'[n] \in Process /\ p'[n].at = q
        /\ p'[n].priv = p[n].priv /\ p'[n].pub = p[n].pub
        /\ p'[n].kid = p[n].kid /\ p'[n].off = p[n].off
    BY <1>1, <2>1, <2>2 DEF Process
  <2> QED
    BY <1>1, <1>2, <1>5, <2>2, <2>3, Resumes
<1>6. CASE ListenFails(n) \/ Terminate(n) \/ Shutdown(n)
  BY <1>5, <1>6 DEF ListenFails, Terminate, Shutdown, Deferred, At
<1>7. ASSUME NEW c \in {"working", "waiting", "done"},
             p' = [p EXCEPT ![n].cleanup = c]
      PROVE  NodeInv'
  <2>1. p'[n] = [p[n] EXCEPT !.cleanup = c]
    BY <1>1, <1>7
  <2>2. /\ p'[n] \in Process /\ p'[n].at = p[n].at
        /\ p'[n].priv = p[n].priv /\ p'[n].pub = p[n].pub
        /\ p'[n].kid = p[n].kid /\ p'[n].off = p[n].off
    BY <1>1, <2>1 DEF Process
  <2> QED
    BY <1>1, <1>2, <1>7, <2>2, Resumes
<1>8. CASE CleanupPass(n)
  <2>1. CASE p[n].cleanup = "working"
    BY <1>1, <1>7, <1>8, <2>1 DEF CleanupPass
  <2>2. CASE p[n].cleanup = "waiting"
    BY <1>1, <1>7, <1>8, <2>2 DEF CleanupPass
  <2> QED
    BY <1>8, <2>1, <2>2 DEF CleanupPass
<1>9. CASE CleanupReturns(n)
  BY <1>7, <1>9 DEF CleanupReturns
<1> QED
  BY <1>4, <1>6, <1>8, <1>9

-----------------------------------------------------------------------------
(* What operators do.                                                      *)

\* Files that no node reads or makes change or vanish with their ./keys.
LEMMA FilesGo ==
    ASSUME NodeInv, UNCHANGED <<cwd, volume, generated, rows, jwks, p, crashes>>,
           edits' \in 0 .. MaxEdits,
           disk' \in [Volumes -> Disk], keysDirs' \subseteq keysDirs,
           \A n \in Nodes : p[n].at = "down" \/
               (disk'[volume[n]] = disk[volume[n]] /\ (cwd[n] \in keysDirs => cwd[n] \in keysDirs')),
           \A v \in Volumes :
               \/ disk'[v] = disk[v] /\ (Under[v] \in keysDirs => Under[v] \in keysDirs')
               \/ disk'[v].priv = None /\ disk'[v].pub = None
               \/ /\ ~Complete(disk'[v]) /\ keysDirs' = keysDirs
                  /\ disk'[v].priv \in {disk[v].priv, None}
                  /\ disk'[v].pub \in {disk[v].pub, None}
    PROVE  NodeInv'
<1>1. None \notin Keys /\ keysDirs' \subseteq Dirs
  BY NodeAssumption DEF Keys, NodeInv, NodeTypeOK
<1>2. NodeTypeOK'
  BY <1>1 DEF NodeInv, NodeTypeOK
<1>3. OneMaker'
  BY DEF NodeInv, OneMaker
<1>4. PairsMatch'
  BY <1>1 DEF NodeInv, PairsMatch, InOwnKeys, Complete
<1>5. ASSUME NEW n \in Nodes  PROVE  Knows(n)'
  <2>1. CASE p[n].at = "down"
    BY <2>1, DownIsProcess, Unburdened
  <2>2. CASE p[n].at # "down"
    <3>1. /\ disk'[volume'[n]] = disk[volume[n]]
          /\ cwd[n] \in keysDirs => cwd'[n] \in keysDirs'
      BY <2>2
    <3>2. Making(n)'
      BY <3>1 DEF NodeInv, Making, InOwnKeys
    <3>3. KeysRead(n)'
      BY <3>1 DEF NodeInv, KeysRead, InOwnKeys
    <3>4. KidKnown(n)'
      BY DEF NodeInv, KidKnown, Published, Active
    <3> QED
      BY <3>2, <3>3, <3>4 DEF Knows
  <2> QED
    BY <2>1, <2>2
<1> QED
  BY <1>2, <1>3, <1>4, <1>5 DEF NodeInv, Knows

LEMMA LoseFileKeeps ==
    ASSUME NodeInv, NEW v \in Volumes, LoseFile(v), edits' \in 0 .. MaxEdits,
           UNCHANGED <<cwd, volume, crashes>>
    PROVE  NodeInv'
<1>1. /\ disk \in [Volumes -> Disk] /\ disk[v] \in Disk /\ None \notin Keys
      /\ volume \in [Nodes -> Volumes]
      /\ UNCHANGED <<keysDirs, generated, rows, jwks, p>>
      /\ \A n \in Nodes : volume[n] = v => p[n].at = "down"
  BY NodeAssumption DEF NodeInv, NodeTypeOK, LoseFile, At, tableVars, Keys
<1>2. PICK d \in Disk : /\ disk' = [disk EXCEPT ![v] = d] /\ ~Complete(d)
                        /\ d.priv \in {disk[v].priv, None}
                        /\ d.pub \in {disk[v].pub, None}
  <2>1. CASE disk' = [disk EXCEPT ![v].priv = None]
    <3> DEFINE d == [disk[v] EXCEPT !.priv = None]
    <3>1. d \in Disk /\ d.priv = None /\ d.pub = disk[v].pub
      BY <1>1 DEF Disk
    <3>2. disk' = [disk EXCEPT ![v] = d]
      BY <2>1
    <3> QED
      BY <1>1, <3>1, <3>2 DEF Complete
  <2>2. CASE disk' = [disk EXCEPT ![v].pub = None]
    <3> DEFINE d == [disk[v] EXCEPT !.pub = None]
    <3>1. d \in Disk /\ d.pub = None /\ d.priv = disk[v].priv
      BY <1>1 DEF Disk
    <3>2. disk' = [disk EXCEPT ![v] = d]
      BY <2>2
    <3> QED
      BY <1>1, <3>1, <3>2 DEF Complete
  <2> QED
    BY <2>1, <2>2 DEF LoseFile, Files
<1>3. disk' \in [Volumes -> Disk] /\ disk'[v] = d
      /\ \A u \in Volumes : u # v => disk'[u] = disk[u]
  BY <1>1, <1>2
<1>4. \A n \in Nodes : p[n].at = "down" \/ disk'[volume[n]] = disk[volume[n]]
  BY <1>1, <1>3
<1> QED
  BY <1>1, <1>2, <1>3, <1>4, FilesGo

LEMMA RemoveKeysKeeps ==
    ASSUME NodeInv, NEW d \in Dirs, RemoveKeys(d), edits' \in 0 .. MaxEdits,
           UNCHANGED <<cwd, volume, crashes>>
    PROVE  NodeInv'
<1>1. /\ disk \in [Volumes -> Disk] /\ volume \in [Nodes -> Volumes]
      /\ keysDirs' = keysDirs \ {d}
      /\ disk' = [v \in Volumes |-> IF Under[v] = d THEN NoDisk ELSE disk[v]]
      /\ UNCHANGED <<generated, rows, jwks, p>>
      /\ \A n \in Nodes : d \in {cwd[n], Under[volume[n]]} => p[n].at = "down"
  BY DEF NodeInv, NodeTypeOK, RemoveKeys, At, tableVars
<1>2. NoDisk \in Disk /\ NoDisk.priv = None /\ NoDisk.pub = None
  BY DEF NoDisk, Disk
<1>3. disk' \in [Volumes -> Disk]
  BY <1>1, <1>2
<1>4. \A n \in Nodes : p[n].at = "down" \/
          (disk'[volume[n]] = disk[volume[n]] /\ (cwd[n] \in keysDirs => cwd[n] \in keysDirs'))
  BY <1>1
<1>5. \A v \in Volumes :
          \/ disk'[v] = disk[v] /\ (Under[v] \in keysDirs => Under[v] \in keysDirs')
          \/ disk'[v].priv = None /\ disk'[v].pub = None
  BY <1>1, <1>2
<1> QED
  BY <1>1, <1>3, <1>4, <1>5, FilesGo

LEMMA ClientEditKeeps ==
    ASSUME NodeInv, EditClient, edits' \in 0 .. MaxEdits,
           UNCHANGED <<cwd, volume, crashes>>
    PROVE  NodeInv'
<1>1. PICK n \in Nodes : At(n, "serving")
  BY DEF EditClient
<1>2. rows' \in [Tables -> RowStates] /\ p' = p /\ p \in [Nodes -> Process]
  BY DEF EditClient, NodeInv, NodeTypeOK, Tables, RowStates
<1>3. Sideways
  BY <1>2 DEF EditClient, NodeInv, NodeTypeOK, Sideways, fileVars
<1> QED
  BY <1>1, <1>2, <1>3, Resumes

\* Whoever runs remembers that the kid was deactivated.
LEMMA DeactivateKeeps ==
    ASSUME NodeInv, NEW i \in DOMAIN jwks, Deactivate(i), edits' \in 0 .. MaxEdits,
           UNCHANGED <<cwd, volume, crashes>>
    PROVE  NodeInv'
<1> DEFINE r == [jwks[i] EXCEPT !.active = FALSE]
           kid == jwks[i].kid
<1>1. /\ jwks \in Seq(JwkKey) /\ jwks[i] \in JwkKey /\ kid \in Kids
      /\ p \in [Nodes -> Process]
      /\ UNCHANGED <<keysDirs, disk, generated, rows>>
  BY RowKnown DEF NodeInv, NodeTypeOK, Deactivate, fileVars
<1>2. r \in JwkKey /\ r.kid = jwks[i].kid /\ r.key = jwks[i].key
  BY <1>1 DEF JwkKey
<1>3. jwks' = [jwks EXCEPT ![i] = r]
  BY DEF Deactivate
<1> HIDE DEF r
<1>4. /\ jwks' \in Seq(JwkKey) /\ DOMAIN jwks' = DOMAIN jwks
      /\ \A k \in DOMAIN jwks : k # i => jwks'[k] = jwks[k]
  BY <1>1, <1>2, <1>3
<1>5. ASSUME NEW n \in Nodes
      PROVE  /\ p'[n] \in Process
             /\ p'[n].at = p[n].at /\ p'[n].priv = p[n].priv /\ p'[n].pub = p[n].pub
             /\ p'[n].kid = p[n].kid
             /\ p[n].at # "down" => p'[n].off = p[n].off \cup {kid}
  <2>1. p[n] \in Process
    BY <1>1
  <2>2. p'[n] = IF At(n, "down") THEN p[n]
                ELSE [p[n] EXCEPT !.off = @ \cup {kid}]
    BY DEF Deactivate
  <2>3. CASE At(n, "down")
    BY <2>1, <2>2, <2>3 DEF At
  <2>4. CASE ~At(n, "down")
    <3> DEFINE o == p[n].off \cup {kid}
    <3>1. p'[n] = [p[n] EXCEPT !.off = o] /\ o \in SUBSET Kids
      BY <1>1, <2>1, <2>2, <2>4 DEF Process
    <3> HIDE DEF o
    <3>2. /\ p'[n] \in Process /\ p'[n].off = o
          /\ p'[n].at = p[n].at /\ p'[n].priv = p[n].priv /\ p'[n].pub = p[n].pub
          /\ p'[n].kid = p[n].kid
      BY <2>1, <3>1 DEF Process
    <3> QED
      BY <3>2 DEF o
  <2> QED
    BY <2>3, <2>4
<1>6. p' \in [Nodes -> Process]
  <2>1. p' = [n \in Nodes |-> p'[n]]
    BY DEF Deactivate
  <2> QED
    BY <1>5, <2>1
<1>7. NodeTypeOK'
  BY <1>1, <1>4, <1>5, <1>6 DEF NodeInv, NodeTypeOK
<1>8. OneMaker' /\ PairsMatch'
  BY <1>1, <1>5 DEF NodeInv, OneMaker, PairsMatch, InOwnKeys
<1>9. \A row \in Published : row \in Published' \/ row[1] = kid
  <2>1. ASSUME NEW k \in Active
        PROVE  \/ <<jwks[k].kid, jwks[k].key>> \in Published'
               \/ jwks[k].kid = kid
    BY <1>4 DEF Published, Active
  <2> QED
    BY <2>1 DEF Published
<1> HIDE DEF kid
<1>10. ASSUME NEW n \in Nodes  PROVE  Knows(n)'
  <2>1. Making(n)'
    BY <1>1, <1>5 DEF NodeInv, Making, InOwnKeys
  <2>2. KeysRead(n)'
    BY <1>1, <1>5 DEF NodeInv, KeysRead, InOwnKeys
  <2>3. KidKnown(n)'
    <3>1. p[n].at \in Keyed => p[n].at # "down"
      BY DownIsProcess
    <3>2. p[n].at \in Keyed =>
              <<p[n].kid, p[n].pub>> \in Published \/ p[n].kid \in p[n].off
      BY DEF NodeInv, KidKnown
    <3>3. <<p[n].kid, p[n].pub>> \in Published =>
              <<p[n].kid, p[n].pub>> \in Published' \/ p[n].kid = kid
      BY <1>9
    <3> QED
      BY <1>5, <3>1, <3>2, <3>3 DEF KidKnown
  <2> QED
    BY <2>1, <2>2, <2>3 DEF Knows
<1> QED
  BY <1>7, <1>8, <1>10 DEF NodeInv, Knows

LEMMA EditKeeps ==
    ASSUME NodeInv, Edit
    PROVE  NodeInv'
<1>1. edits' \in 0 .. MaxEdits /\ UNCHANGED <<cwd, volume, crashes>>
  BY NodeAssumption DEF Edit, NodeInv, NodeTypeOK
<1> QED
  BY <1>1, LoseFileKeeps, RemoveKeysKeeps, ClientEditKeeps, DeactivateKeeps DEF Edit

-----------------------------------------------------------------------------
(* Every behaviour.                                                        *)

LEMMA InitHolds == Init => NodeInv
<1> SUFFICES ASSUME Init  PROVE  NodeInv
  OBVIOUS
<1>1. NodeTypeOK
  <2>1. NoDisk \in Disk /\ Down \in Process /\ Down.at \notin Keyed
    BY DownIsProcess DEF NoDisk, Disk
  <2>2. rows \in [Tables -> RowStates]
    BY DEF Init, RowStates
  <2>3. cwd \in [Nodes -> Dirs] /\ volume \in [Nodes -> Volumes]
    BY NodeAssumption DEF Init
  <2> QED
    BY <2>1, <2>2, <2>3, NodeAssumption DEF Init, NodeTypeOK
<1>2. \A n \in Nodes : p[n].at = "down"
  BY DEF Init, Down
<1>3. "down" \notin Generating \cup Loaded \cup Keyed \cup {"load_pub"}
  BY DEF Generating, Loaded, Keyed
<1>4. OneMaker
  BY <1>2, <1>3 DEF OneMaker
<1>5. PairsMatch
  <2>1. None \notin Keys /\ NoDisk.priv = None /\ NoDisk.pub = None
    BY NodeAssumption DEF Keys, NoDisk
  <2>2. \A v \in Volumes : disk[v] = NoDisk
    BY DEF Init
  <2> QED
    BY <2>1, <2>2 DEF PairsMatch, Complete
<1>6. \A n \in Nodes : Making(n) /\ KeysRead(n) /\ KidKnown(n)
  BY <1>2, <1>3 DEF Making, KeysRead, KidKnown, Generating
<1> QED
  BY <1>1, <1>4, <1>5, <1>6 DEF NodeInv

LEMMA StutterHolds ==
    ASSUME NodeInv, UNCHANGED vars
    PROVE  NodeInv'
<1>1. UNCHANGED <<cwd, volume, keysDirs, disk, generated, rows, jwks, p, crashes, edits>>
  BY DEF vars, fileVars, tableVars, envVars
<1>2. NodeTypeOK'
  BY <1>1 DEF NodeInv, NodeTypeOK
<1>3. OneMaker' /\ PairsMatch'
  BY <1>1 DEF NodeInv, OneMaker, PairsMatch, InOwnKeys
<1>4. \A n \in Nodes : Making(n)' /\ KeysRead(n)' /\ KidKnown(n)'
  BY <1>1 DEF NodeInv, Making, KeysRead, KidKnown, Published, Active, InOwnKeys
<1> QED
  BY <1>2, <1>3, <1>4 DEF NodeInv

LEMMA StepHolds ==
    ASSUME NodeInv, [Next]_vars
    PROVE  NodeInv'
<1>1. ASSUME NEW n \in Nodes, Run(n)  PROVE  NodeInv'
  BY <1>1, StartKeeps, LoadPrivKeeps, LoadPubKeeps, MkdirKeeps, OpenKeeps, FillKeeps,
     QueriesKeep, AnyKeeps, InsertKeeps, ClientKeeps, ServingKeeps
  DEF Run, InitDB, GenerateRSAKeyPair, ensureActiveJWK
<1>2. ASSUME NEW n \in Nodes,
             \/ CleanupPass(n) \/ CleanupReturns(n)
             \/ ListenFails(n) \/ Terminate(n) \/ Crash(n)
      PROVE  NodeInv'
  BY <1>2, ServingKeeps, StartKeeps
<1> QED
  BY <1>1, <1>2, EditKeeps, StutterHolds DEF Next

\* The inductive invariant of a node's keys.
THEOREM NodeInvariant == Spec => []NodeInv
BY InitHolds, StepHolds, PTL DEF Spec

\* InitDB: every variable keeps its type, and a node past ensureActiveJWK has a
\* kid.
THEOREM NodeTyping == Spec => []NodeTypeOK
<1>1. NodeInv => NodeTypeOK
  BY DEF NodeInv
<1> QED
  BY <1>1, NodeInvariant, PTL

\* LoadKey, GenerateRSAKeyPair, ensureActiveJWK: the private key a node signs
\* with belongs, under the default paths, to its public key, and that is published
\* under the kid it writes, unless the kid was deactivated while it ran, for any
\* number of nodes that start at once.
THEOREM KidsNameKeys == Spec => []KidNamesKey
<1>1. NodeInv => KidNamesKey
  BY DEF NodeInv, KidNamesKey, KeysRead, KidKnown
<1> QED
  BY <1>1, NodeInvariant, PTL

\* A step other than an operator's leaves complete pairs as they are.
LEMMA PairStays ==
    ASSUME NodeInv, [Next]_vars, NEW v \in Volumes, InOwnKeys(v),
           Complete(disk[v]), disk'[v] # disk[v]
    PROVE  edits' # edits
<1>1. volume \in [Nodes -> Volumes] /\ disk \in [Volumes -> Disk]
      /\ edits \in Nat /\ Torn \notin Keys /\ None \notin Keys
  BY NodeAssumption DEF NodeInv, NodeTypeOK, Keys
<1>2. disk' # disk
  OBVIOUS
<1>3. ASSUME NEW n \in Nodes, Run(n)  PROVE  GenerateRSAKeyPair(n)
  BY <1>2, <1>3
  DEF Run, InitDB, Launch, CheckRootUser, createRootAccount, findStartupRecord,
      upsertMetadata, LoadPriv, LoadPub, ensureActiveJWK, JwkMatch, JwkActive,
      JwkAny, JwkInsert, ensureDefaultClient, CreateStartup, Serve, Shutdown, CloseDB,
      Probe, Insert, fileVars
<1>4. ASSUME NEW n \in Nodes, GenerateRSAKeyPair(n)  PROVE  FALSE
  <2>1. ~Mkdir(n) /\ ~MkdirFails(n)
    BY <1>2 DEF Mkdir, MkdirFails, fileVars
  <2>2. p[n].at \in Generating /\ volume[n] = v
    BY <1>1, <1>2, <1>4, <2>1 DEF GenerateRSAKeyPair, OpenFile, FillFile, At, Generating
  <2>3. ~Complete(disk[volume[n]])
    BY <1>1, <2>2 DEF NodeInv, Making, Complete, Generating
  <2> QED
    BY <2>2, <2>3
<1>5. ASSUME NEW n \in Nodes,
             \/ CleanupPass(n) \/ CleanupReturns(n)
             \/ ListenFails(n) \/ Terminate(n) \/ Crash(n)
      PROVE  FALSE
  BY <1>2, <1>5
  DEF CleanupPass, CleanupReturns, ListenFails, Terminate, Crash, fileVars
<1>6. CASE UNCHANGED vars
  BY <1>2, <1>6 DEF vars, fileVars
<1>7. CASE Edit
  BY <1>1, <1>7 DEF Edit
<1> QED
  BY <1>3, <1>4, <1>5, <1>6, <1>7 DEF Next

\* GenerateRSAKeyPair: whoever starts or dies, a complete pair of key files under
\* the default paths is never overwritten by the service.
THEOREM PairsAreKept == Spec => PairIsKept
<1>1. NodeInv /\ [Next]_vars =>
          [\A v \in Volumes :
               InOwnKeys(v) /\ Complete(disk[v]) /\ disk'[v] # disk[v]
               => edits' # edits]_vars
  BY PairStays
<1> QED
  BY <1>1, NodeInvariant, PTL DEF Spec, PairIsKept
=============================================================================
