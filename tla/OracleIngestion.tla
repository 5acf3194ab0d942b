--------------------------- MODULE OracleIngestion ---------------------------
(***************************************************************************)
(* Parsing acquired archives and storing what they say                     *)
(* (oracle_archive.py parse_oracle_archive, ingestion/oracle_archive.py),  *)
(* while others are acquired.  An archive's rows become observations,      *)
(* each linked to every row that says it, or are quarantined; archives of  *)
(* one key are stored once per content, later ones as revisions of the     *)
(* first.  Several processes may ingest at once; any step may fail.        *)
(*                                                                         *)
(* As in Ingestion, a unit of work reads what others have committed until  *)
(* its first insertion, which takes the write lock and may find what it    *)
(* read to be stale.  All rows are of one symbol; a call that cannot write *)
(* its run record, or dies before it has the write lock, is one that takes *)
(* no further step.                                                        *)
(***************************************************************************)
EXTENDS OracleFetch, Sequences

CONSTANTS
    Ingesters,      \* calls of OracleArchiveIngestionService.ingest
    Content         \* the rows of each archive, by number

Row == [kind : {"valid", "malformed", "future"}, time : Nat, price : Nat]

ASSUME IngestionAssumption ==
    /\ None \notin Ingesters
    /\ \A b \in Bytes : \A n \in DOMAIN Content[b] : Content[b][n] \in Row

VARIABLES
    archives,       \* oracle_archive_objects, in the order of their ids
    observations,   \* historical_oracle_observations
    links,          \* oracle_observation_sources: an archive and a row of it
    quarantine,     \* oracle_malformed_rows: an archive and a row of it
    runs,           \* the status each call's run shows
    lock,           \* the call whose unit of work holds the write lock
    step,
    provenance,     \* what each call parsed: its hash, retrieval and revision
    earlier,        \* the first archive of the key a call has seen, or None
    glimpse,        \* the row a call found new without the lock, and what it saw of its time
    overtaken       \* the calls others committed into after they had looked

storeVars == <<archives, observations, links, quarantine, runs, lock, step, provenance,
               earlier, glimpse, overtaken>>

IngestionInit ==
    /\ archives = <<>> /\ observations = {} /\ links = {} /\ quarantine = {}
    /\ runs = [i \in Ingesters |-> "none"]
    /\ lock = None
    /\ step = [i \in Ingesters |-> "idle"]
    /\ provenance = [i \in Ingesters |-> None]
    /\ earlier = [i \in Ingesters |-> None]
    /\ glimpse = [i \in Ingesters |-> None]
    /\ overtaken = {}

-----------------------------------------------------------------------------
(* The parser *)

Proceed(i, s) == step' = [step EXCEPT ![i] = s]

(* load_archive_provenance: the manifest, or what the name and the bytes   *)
(* tell when there is none; a torn or untrue one is refused.               *)
Derived(p) == [sha256 |-> files[p], retrieved_at |-> None, revision |-> p # "original"]

Loaded(p) ==
    IF manifests[p] = None THEN Derived(p)
    ELSE [sha256 |-> files[p], retrieved_at |-> manifests[p].retrieved_at,
          revision |-> manifests[p].revision_of # None]

(* A row that is later than the retrieval of its archive is malformed too, *)
(* when the retrieval is known.                                            *)
Malformed(prov) ==
    {n \in DOMAIN Content[prov.sha256] :
        \/ Content[prov.sha256][n].kind = "malformed"
        \/ Content[prov.sha256][n].kind = "future" /\ prov.retrieved_at # None}

Observed(prov) == DOMAIN Content[prov.sha256] \ Malformed(prov)

-----------------------------------------------------------------------------
(* One call *)

StartRun(i) ==
    /\ step[i] = "idle"
    /\ \E p \in Paths : files[p] # None
    /\ runs' = [runs EXCEPT ![i] = "running"]
    /\ Proceed(i, "parse")
    /\ UNCHANGED <<archives, observations, links, quarantine, lock, provenance, earlier, glimpse, overtaken>>

(* Which contents the limits, the decompressor or the schema refuse is left *)
(* open.                                                                    *)
Parse(i) ==
    /\ step[i] = "parse"
    /\ \/ \E p \in {q \in Paths : files[q] # None /\ ProvenanceLoads(q)} :
            /\ provenance' = [provenance EXCEPT ![i] = Loaded(p)]
            /\ Proceed(i, "look")
       \/ Proceed(i, "fail") /\ UNCHANGED provenance
    /\ UNCHANGED <<archives, observations, links, quarantine, runs, lock, earlier, glimpse, overtaken>>

Known(sha256) == \E n \in DOMAIN archives : archives[n].sha256 = sha256
NewMalformed(i) == {n \in Malformed(provenance[i]) : <<provenance[i].sha256, n>> \notin quarantine}
NewObserved(i) == {n \in Observed(provenance[i]) : <<provenance[i].sha256, n>> \notin links}

Value(r) == [time |-> r.time, price |-> r.price]
Values == {Value(o) : o \in observations}
ValueOf(i, n) == Value(Content[provenance[i].sha256][n])

(* Which row of a stored archive is inserted first: malformed ones are.    *)
ComesFirst(i, n) ==
    LET new == IF NewMalformed(i) # {} THEN NewMalformed(i) ELSE NewObserved(i)
    IN  n \in new /\ \A m \in new : n <= m

(* What is read before the first insertion, when the archive to be revised *)
(* is the given one: whether these bytes are stored, and then which row is *)
(* the first that is new, and which values of its time there are.          *)
LookFor(i, revised) ==
    /\ step[i] = "look"
    /\ earlier' = [earlier EXCEPT ![i] = revised]
    /\ \/ /\ ~Known(provenance[i].sha256)
          /\ Proceed(i, "insert") /\ UNCHANGED glimpse
       \/ /\ Known(provenance[i].sha256)
          /\ NewMalformed(i) \cup NewObserved(i) = {}
          /\ Proceed(i, "finish") /\ UNCHANGED glimpse
       \/ /\ Known(provenance[i].sha256)
          /\ \E n \in NewMalformed(i) \cup NewObserved(i) :
                /\ ComesFirst(i, n)
                /\ glimpse' = [glimpse EXCEPT ![i] =
                        [row |-> n, seen |-> {v \in Values : v.time = ValueOf(i, n).time}]]
          /\ Proceed(i, "add")
    /\ UNCHANGED <<archives, observations, links, quarantine, runs, lock, provenance, overtaken>>

(* Variant: the archive to be revised is the last one. *)
LookForLast(i) == LookFor(i, IF archives = <<>> THEN None ELSE archives[Len(archives)].sha256)

Look(i) == LookFor(i, IF archives = <<>> THEN None ELSE archives[1].sha256)

(* The first insertion, of the archive, takes the write lock.  It fails if *)
(* the bytes have been stored meanwhile, or the lock is not given up.      *)
Insert(i) ==
    /\ step[i] = "insert"
    /\ \/ lock = None /\ ~Known(provenance[i].sha256) /\ lock' = i /\ Proceed(i, "commit")
       \/ Proceed(i, "fail") /\ UNCHANGED lock
    /\ UNCHANGED <<archives, observations, links, quarantine, runs, provenance, earlier, glimpse, overtaken>>

(* Of an archive stored before, the first row that is new: one that was    *)
(* used when the retrieval was not on record and is malformed now, or was  *)
(* found malformed by a call that knew the retrieval, as this one did not. *)
(* Its insertion fails if the row, or its value, has been stored since it  *)
(* was looked for; from then on the call reads under the write lock.       *)
Add(i) ==
    /\ step[i] = "add"
    /\ \/ /\ lock = None
          /\ glimpse[i].row \in NewMalformed(i) \cup NewObserved(i)
          /\ glimpse[i].row \in Observed(provenance[i]) /\ ValueOf(i, glimpse[i].row) \in Values
                => ValueOf(i, glimpse[i].row) \in glimpse[i].seen
          /\ lock' = i
          /\ Proceed(i, "commit")
       \/ Proceed(i, "fail") /\ UNCHANGED lock
    /\ UNCHANGED <<archives, observations, links, quarantine, runs, provenance, earlier, glimpse, overtaken>>

-----------------------------------------------------------------------------
(* The second unit of work *)

Archive(i) ==
    [sha256 |-> provenance[i].sha256, retrieved_at |-> provenance[i].retrieved_at, overtaken |-> i \in overtaken,
     revision |-> earlier[i] # None \/ provenance[i].revision, of |-> earlier[i]]

Said(i) == {ValueOf(i, n) : n \in NewObserved(i)}

(* The values a call does not compare its own with: they were stored after *)
(* it had looked for those of the time of its first row, and that row is   *)
(* the only one that adds a value of that time.                            *)
Unseen(i) ==
    {v \in Values :
        /\ glimpse[i] # None
        /\ glimpse[i].row \in Observed(provenance[i])
        /\ v.time = ValueOf(i, glimpse[i].row).time
        /\ v \notin glimpse[i].seen
        /\ \A w \in Said(i) \ Values : w.time = v.time => w = ValueOf(i, glimpse[i].row)}

(* Variant: what was stored before is not marked. *)
ObservationsUnmarked(i) ==
    observations \cup
        {[time |-> v.time, price |-> v.price,
          conflicting |-> \E w \in Values \cup Said(i) : w.time = v.time /\ w.price # v.price]
            : v \in Said(i) \ Values}

(* A value that is not stored is added, and with it every value of its     *)
(* time it is compared with is marked if there is another.                 *)
Observations(i) ==
    LET added == Said(i) \ Values
        compared == (Values \ Unseen(i)) \cup added
        Disputed(v) == \E w \in compared : w.time = v.time /\ w.price # v.price
        Touched(v) == v \in compared /\ \E w \in added : w.time = v.time
    IN  {[o EXCEPT !.conflicting = @ \/ (Touched(Value(o)) /\ Disputed(o))] : o \in observations}
        \cup {[time |-> v.time, price |-> v.price, conflicting |-> Disputed(v)] : v \in added}

(* Variant: the rows are stored whether or not the unit of work commits. *)
CommitHalf(i) ==
    /\ step[i] = "commit"
    /\ archives' = IF Known(provenance[i].sha256) THEN archives ELSE Append(archives, Archive(i))
    /\ \/ /\ observations' = Observations(i)
          /\ links' = links \cup {<<provenance[i].sha256, n>> : n \in Observed(provenance[i])}
          /\ quarantine' = quarantine \cup {<<provenance[i].sha256, n>> : n \in Malformed(provenance[i])}
          /\ Proceed(i, "finish")
       \/ Proceed(i, "fail") /\ UNCHANGED <<observations, links, quarantine>>
    /\ lock' = None
    /\ overtaken' = overtaken \cup {j \in Ingesters : step[j] \in {"insert", "add"}}
    /\ UNCHANGED <<runs, provenance, earlier, glimpse>>

(* Everything of an archive is committed, or nothing. *)
Commit(i) ==
    /\ step[i] = "commit"
    /\ \/ /\ archives' = IF Known(provenance[i].sha256) THEN archives ELSE Append(archives, Archive(i))
          /\ observations' = Observations(i)
          /\ links' = links \cup {<<provenance[i].sha256, n>> : n \in Observed(provenance[i])}
          /\ quarantine' = quarantine \cup {<<provenance[i].sha256, n>> : n \in Malformed(provenance[i])}
          /\ overtaken' = overtaken \cup {j \in Ingesters : step[j] \in {"insert", "add"}}
          /\ Proceed(i, "finish")
       \/ /\ Proceed(i, "fail")
          /\ UNCHANGED <<archives, observations, links, quarantine, overtaken>>
    /\ lock' = None
    /\ UNCHANGED <<runs, provenance, earlier, glimpse>>

(* _finish_run, which may fail as well. *)
Close(i, at, status) ==
    /\ step[i] = at
    /\ \/ runs' = [runs EXCEPT ![i] = status]
       \/ UNCHANGED runs
    /\ Proceed(i, "over")
    /\ provenance' = [provenance EXCEPT ![i] = None]
    /\ earlier' = [earlier EXCEPT ![i] = None]
    /\ glimpse' = [glimpse EXCEPT ![i] = None]
    /\ overtaken' = overtaken \ {i}
    /\ UNCHANGED <<archives, observations, links, quarantine, lock>>

Finish(i) == Close(i, "finish", "succeeded")
Fail(i) == Close(i, "fail", "failed")

-----------------------------------------------------------------------------
OracleInit == Init /\ IngestionInit

OracleNext ==
    \/ Next /\ UNCHANGED storeVars
    \/ /\ \E i \in Ingesters :
            \/ StartRun(i) \/ Parse(i) \/ Look(i) \/ Insert(i) \/ Add(i) \/ Commit(i)
            \/ Finish(i) \/ Fail(i)
       /\ UNCHANGED vars

OracleSpec == OracleInit /\ [][OracleNext]_<<vars, storeVars>>

-----------------------------------------------------------------------------
(* PROPERTIES *)

(* No value is marked without another of its time, and two values of one   *)
(* time never stand unmarked, whatever order archives are stored in and    *)
(* whoever stores them, so that alignment does not settle on a disputed    *)
(* price; except at the time of a row that calls differed about, which was *)
(* quarantined and used later, by one that looked without the lock.        *)
DisputesMarked ==
    \A o \in observations :
        LET disputed == \E p \in observations : p.time = o.time /\ p.price # o.price
        IN  /\ o.conflicting => disputed
            /\ disputed => \/ o.conflicting
                           \/ \E l \in links \cap quarantine : Content[l[1]][l[2]].time = o.time

(* A stored archive is stored whole: each of its rows is linked or         *)
(* quarantined, and only a row dated after the retrieval can be both, when *)
(* calls differed about it; and the observations are exactly what the      *)
(* linked rows say.                                                        *)
RowsAccounted ==
    /\ \A a \in DOMAIN archives : \A n \in DOMAIN Content[archives[a].sha256] :
        <<archives[a].sha256, n>> \in links \cup quarantine
    /\ \A l \in links \cap quarantine : Content[l[1]][l[2]].kind = "future"
    /\ \A l \in links : \E o \in observations :
        o.time = Content[l[1]][l[2]].time /\ o.price = Content[l[1]][l[2]].price
    /\ \A o \in observations : \E l \in links :
        Content[l[1]][l[2]].time = o.time /\ Content[l[1]][l[2]].price = o.price

(* Every archive but the first of its key is a revision of that first one  *)
(* (docs/architecture.md), if no other was committed between the queries   *)
(* that looked for it and its own insertion.                               *)
RevisionsPointToFirst ==
    \A n \in 2..Len(archives) :
        ~archives[n].overtaken =>
            archives[n].revision /\ archives[n].of = archives[1].sha256
=============================================================================
