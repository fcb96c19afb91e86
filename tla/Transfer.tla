------------------------------- MODULE Transfer -------------------------------
(***************************************************************************)
(* The move of a deployment's data to a fresh one (src/src/transfer).      *)
(*                                                                         *)
(* A command line process copies the tables page by page and the OAuth     *)
(* accounts one by one, and hands the accounts' alarms over at the end.    *)
(* All progress is in a journal on its disk, written before every step     *)
(* that cannot be undone and after it; the two deployments keep none.  The *)
(* process may die before or after any call takes effect, and is started   *)
(* again to go on or to abort.                                             *)
(*                                                                         *)
(* A digest stands for what it is computed from: digests are compared as   *)
(* the values themselves.                                                  *)
(***************************************************************************)
EXTENDS Integers, FiniteSets, Sequences, SequencesExt, TLC, Functions

CONSTANTS
    None,
    Tables,        \* the names of the tables, in the order they are copied
    SourceTables,  \* table -> key -> row
    SourceObjects, \* account -> its state, a number
    SourceAlarms,  \* account -> the time of its alarm, or None
    Seeds,         \* the rows of a freshly migrated "providers" table
    HourOf,        \* request -> the key of its rollup row
    PageSize,      \* PAGE_SIZE
    Vias,          \* subset of {"pages", "snapshot", "import"}
    MaxCrashes, MaxFires

VARIABLES
    via,      \* how tables move: page by page, from an export, or as one import
    src, dst, \* a deployment: [tables, objects, alarms]
    disk,     \* the journal, None before the task begins
    cli,      \* the process: [state, pc, i, page, export], None when it does not run
    touched,  \* whether somebody wrote to the source although it should be idle:
              \* "never", "before" the process read it for the last time, or "late"
    fired,    \* accounts whose alarm has run, on either side
    crashes

vars == <<via, src, dst, disk, cli, touched, fired, crashes>>

\* Rows are numbers; these are not in the source to begin with.
Overwritten == 0
Unset == -1      \* config_meta after the migrations
Derived == -2    \* a rollup row made by the triggers

NewState ==
    [phase |-> "prepared", table |-> 1, cursor |-> 0, intent |-> None, object |-> 1,
     objects |-> <<>>, alarms |-> <<>>]

Ended == {"completed", "aborted"}
Phase == IF disk = None THEN "none" ELSE disk.phase

Init ==
    /\ via \in Vias
    /\ src = [tables |-> SourceTables, objects |-> SourceObjects, alarms |-> SourceAlarms]
    /\ dst = [tables |-> [n \in Range(Tables) |-> IF n = "providers" THEN Seeds
                                                 ELSE IF n = "config_meta" THEN (1 :> Unset)
                                                 ELSE <<>>],
              objects |-> <<>>, alarms |-> <<>>]
    /\ disk = None /\ cli = None
    /\ touched = "never" /\ fired = {} /\ crashes = 0

-----------------------------------------------------------------------------
(* What the two deployments do (service.ts, tables.ts, objects.ts). *)

\* readPage
PageAfter(rest, take, table) ==
    [rows |-> Restrict(table, take),
     next |-> IF take = rest THEN None ELSE CHOOSE k \in take : \A j \in take : j <= k]

PageOf(table, cursor, limit) ==
    LET rest == {k \in DOMAIN table : k > cursor}
    IN  PageAfter(rest, {k \in rest : Cardinality({j \in rest : j <= k}) <= limit}, table)

\* requireEmptyTarget, with the objects; "prepared" also accepts no providers
EmptyTarget(prepared) ==
    /\ \A n \in Range(Tables) \ {"providers", "config_meta"} : dst.tables[n] = <<>>
    /\ dst.tables["config_meta"] = (1 :> Unset)
    /\ dst.tables["providers"] = Seeds \/ (prepared /\ dst.tables["providers"] = <<>>)
    /\ dst.objects = <<>>

\* objectInventory: an account without a provider is left behind.
Inventory ==
    SetToSortSeq({a \in DOMAIN src.tables["oauth_accounts"] :
                    src.tables["oauth_accounts"][a] \in DOMAIN src.tables["providers"]}, <)

\* The rows a page would repeat or contradict are read before it is written.
Replaces(n, cursor) == n = "usage_hourly" /\ cursor = 0

Existing(n, cursor, rows) ==
    IF Replaces(n, cursor) \/ n = "config_meta" \/ rows = <<>> THEN <<>>
    ELSE PageOf(dst.tables[n], cursor, Cardinality(DOMAIN rows)).rows

Conflicting(existing, rows) ==
    \E k \in DOMAIN existing : k \notin DOMAIN rows \/ existing[k] # rows[k]

Pending(existing, rows) == Restrict(rows, DOMAIN rows \ DOMAIN existing)

\* The primary key refuses a row that is already there.
Duplicate(n, cursor, pending) ==
    /\ n # "config_meta" /\ ~Replaces(n, cursor)
    /\ DOMAIN pending \cap DOMAIN dst.tables[n] # {}

\* A trigger of the requests table keeps the rollup; the rollup's first page
\* replaces what the triggers made.
Inserted(n, cursor, pending) ==
    [m \in DOMAIN dst.tables |->
        IF m = n THEN pending @@ (IF Replaces(n, cursor) THEN <<>> ELSE dst.tables[n])
        ELSE IF m = "usage_hourly" /\ n = "requests"
        THEN [h \in {HourOf[k] : k \in DOMAIN pending} |-> Derived] @@ dst.tables[m]
        ELSE dst.tables[m]]

\* writeD1Import: everything is deleted and inserted in one import.
Imported(tables) == [n \in DOMAIN dst.tables |-> tables[n]]

-----------------------------------------------------------------------------
(* The process.  Goto saves nothing; Save writes the journal first. *)

FirstStep(phase) ==
    CASE phase = "prepared" -> "prepare"
      [] phase = "pausing" -> "recheck"
      [] phase = "tables" -> IF via = "import" THEN "stage" ELSE "read"
      [] phase = "objects" -> "readObject"
      [] phase = "verifying" -> "verify"
      [] phase = "activating" -> "activate"
      [] phase = "aborting" -> "disarm"

Process(state, pc) == [state |-> state, pc |-> pc, i |-> 1, page |-> None, export |-> None]

NothingRead == [rows |-> <<>>, next |-> 0]

At(pc) == cli # None /\ cli.pc = pc
s == cli.state
Ref == s.objects[cli.i]

Remote == UNCHANGED <<via, touched, fired, crashes>>

\* What a process in "verifying" does once it has compared the inventories.
Checks == {"checkTable", "checkObject"}

Save(state, next) == disk' = state /\ cli' = [next EXCEPT !.state = state]

\* A phase begins with the journal saved.
Enter(state, phase) ==
    Save([state EXCEPT !.phase = phase],
         [cli EXCEPT !.pc = FirstStep(phase), !.i = 1, !.page = None])

\* An error ends the process; the journal stays.
Throw == cli' = None /\ UNCHANGED disk

\* databaseSnapshot: an export of the source, made once per process
Database == IF via = "pages" THEN src.tables ELSE cli.export

Begin ==
    /\ disk = None /\ cli = None /\ EmptyTarget(FALSE)
    /\ disk' = NewState /\ cli' = Process(NewState, "prepare")
    /\ UNCHANGED <<src, dst>> /\ Remote

\* A process that resumes reads everything it compares anew.
Resume ==
    /\ cli = None /\ disk # None /\ Phase \notin Ended \cup {"aborting"}
    /\ cli' = Process(disk, FirstStep(disk.phase))
    /\ touched' = IF touched = "late" /\ Phase # "activating" THEN "before" ELSE touched
    /\ UNCHANGED <<via, src, dst, disk, fired, crashes>>

\* abortTransfer: from any phase before the target was woken up
MayAbort == Phase \notin Ended \cup {"none", "activating"}

Abort ==
    /\ cli = None /\ MayAbort
    /\ LET state == [disk EXCEPT !.phase = "aborting"]
       IN  disk' = state /\ cli' = Process(state, "disarm")
    /\ UNCHANGED <<src, dst>> /\ Remote

Prepare ==
    /\ At("prepare")
    /\ IF EmptyTarget(TRUE)
       THEN /\ dst' = [dst EXCEPT !.tables["providers"] = <<>>]
            /\ cli' = [cli EXCEPT !.pc = "inventory"] /\ UNCHANGED disk
       ELSE Throw /\ UNCHANGED dst
    /\ UNCHANGED src /\ Remote

TakeInventory ==
    /\ At("inventory")
    /\ LET state == [s EXCEPT !.objects = Inventory, !.phase = "pausing"]
       IN  Save(state, [cli EXCEPT !.pc = "pause"])
    /\ UNCHANGED <<src, dst>> /\ Remote

Recheck ==
    /\ At("recheck")
    /\ IF s.objects = Inventory THEN cli' = [cli EXCEPT !.pc = "pause"] /\ UNCHANGED disk
       ELSE Throw
    /\ UNCHANGED <<src, dst>> /\ Remote

\* Mutant: the alarm is looked up again by the process that resumes.
RememberedAgain(state, ref) == [state EXCEPT !.alarms = (ref :> src.alarms[ref]) @@ @]

\* The alarm of an account is in the journal before it is cleared.
Remembered(state, ref) ==
    IF ref \in DOMAIN state.alarms THEN state
    ELSE [state EXCEPT !.alarms = (ref :> src.alarms[ref]) @@ @]

NextPause ==
    /\ At("pause")
    /\ IF cli.i > Len(s.objects) THEN Enter(s, "tables")
       ELSE Save(Remembered(s, Ref), [cli EXCEPT !.pc = "clear"])
    /\ UNCHANGED <<src, dst>> /\ Remote

Clear ==
    /\ At("clear")
    /\ src' = [src EXCEPT !.alarms[Ref] = None]
    /\ cli' = [cli EXCEPT !.pc = "pause", !.i = @ + 1]
    /\ UNCHANGED <<dst, disk>> /\ Remote

Export ==
    /\ cli # None /\ cli.pc \in {"read", "stage", "readObject", "verify"}
    /\ via # "pages" /\ cli.export = None
    /\ cli' = [cli EXCEPT !.export = src.tables]
    /\ UNCHANGED <<src, dst, disk>> /\ Remote

Reading(pc) == At(pc) /\ (via = "pages" \/ cli.export # None)

\* The digest of what is about to be written is saved before it is sent.
Intended(value, next) ==
    IF s.intent \in {None, value} THEN Save([s EXCEPT !.intent = value], next) ELSE Throw

Stage ==
    /\ Reading("stage")
    /\ Intended(Database, [cli EXCEPT !.pc = "import"])
    /\ UNCHANGED <<src, dst>> /\ Remote

Import ==
    /\ At("import")
    /\ dst' = [dst EXCEPT !.tables = Imported(s.intent)]
    /\ cli' = [cli EXCEPT !.pc = "imported"]
    /\ UNCHANGED <<src, disk>> /\ Remote

EndImport ==
    /\ At("imported")
    /\ Enter([s EXCEPT !.intent = None], "objects")
    /\ UNCHANGED <<src, dst>> /\ Remote

ReadPage ==
    /\ Reading("read")
    /\ IF s.table > Len(Tables) THEN Enter(s, "objects")
       ELSE LET page == PageOf(Database[Tables[s.table]], s.cursor, PageSize)
            IN  Intended(page, [cli EXCEPT !.pc = "write", !.page = page])
    /\ UNCHANGED <<src, dst>> /\ Remote

Written(n, existing, pending) ==
    IF Conflicting(existing, cli.page.rows) \/ Duplicate(n, s.cursor, pending)
    THEN Throw /\ UNCHANGED dst
    ELSE /\ dst' = [dst EXCEPT !.tables = Inserted(n, s.cursor, pending)]
         /\ cli' = [cli EXCEPT !.pc = "next"] /\ UNCHANGED disk

WritePage ==
    /\ At("write")
    /\ LET n == Tables[s.table]
           existing == Existing(n, s.cursor, cli.page.rows)
       IN  Written(n, existing, Pending(existing, cli.page.rows))
    /\ UNCHANGED src /\ Remote

NextPage ==
    /\ At("next")
    /\ Save([s EXCEPT !.intent = None,
                      !.cursor = IF cli.page.next = None THEN 0 ELSE cli.page.next,
                      !.table = IF cli.page.next = None THEN @ + 1 ELSE @],
            [cli EXCEPT !.pc = "read", !.page = None])
    /\ UNCHANGED <<src, dst>> /\ Remote

ReadObject ==
    /\ Reading("readObject")
    /\ IF s.object > Len(s.objects) THEN Enter(s, "verifying")
       ELSE LET ref == s.objects[s.object]
                value == [ref |-> ref, state |-> src.objects[ref], alarm |-> src.alarms[ref]]
            IN  Intended(value, [cli EXCEPT !.pc = "writeObject", !.page = value])
    /\ UNCHANGED <<src, dst>> /\ Remote

\* writeObjectStorage: an account that is already there must be the same.
WriteObject ==
    /\ At("writeObject")
    /\ LET ref == cli.page.ref
       IN  IF ref \in DOMAIN dst.objects /\ dst.objects[ref] # cli.page.state
           THEN Throw /\ UNCHANGED dst
           ELSE /\ dst' = [dst EXCEPT !.objects = (ref :> cli.page.state) @@ @,
                                      !.alarms = @ @@ (ref :> None)]
                /\ cli' = [cli EXCEPT !.pc = "nextObject"] /\ UNCHANGED disk
    /\ UNCHANGED src /\ Remote

NextObject ==
    /\ At("nextObject")
    /\ Save([s EXCEPT !.intent = None, !.object = @ + 1],
            [cli EXCEPT !.pc = "readObject", !.page = None])
    /\ UNCHANGED <<src, dst>> /\ Remote

\* The target is valid (its references are data this model leaves out) and the
\* inventory is the one the task began with.
Verify ==
    /\ Reading("verify")
    /\ IF s.objects = Inventory
       THEN cli' = [cli EXCEPT !.pc = "checkTable", !.i = 1, !.page = NothingRead] /\ UNCHANGED disk
       ELSE Throw
    /\ UNCHANGED <<src, dst>> /\ Remote

\* tableDigest of the source, one page per call.  Only this process writes to the
\* target, so that its digest may be taken in the same moment as the last page.
CheckTable ==
    /\ At("checkTable")
    /\ LET n == Tables[cli.i]
           page == PageOf(Database[n], cli.page.next, PageSize)
           before == page.rows @@ cli.page.rows
       IN  CASE page.next # None ->
                    /\ cli' = [cli EXCEPT !.page = [rows |-> before, next |-> page.next]]
                    /\ UNCHANGED disk
             [] page.next = None /\ before = dst.tables[n] ->
                    /\ cli' = IF cli.i = Len(Tables)
                              THEN [cli EXCEPT !.pc = "checkObject", !.i = 1, !.page = None]
                              ELSE [cli EXCEPT !.i = @ + 1, !.page = NothingRead]
                    /\ UNCHANGED disk
             [] OTHER -> Throw
    /\ UNCHANGED <<src, dst>> /\ Remote

SameObject(ref) == src.objects[ref] = dst.objects[ref] /\ src.alarms[ref] = dst.alarms[ref]

\* One account after the other; then the journal says that all was compared,
\* before the first alarm of the target is set.
CheckObject ==
    /\ At("checkObject")
    /\ CASE cli.i > Len(s.objects) -> Enter(s, "activating")
         [] cli.i <= Len(s.objects) /\ SameObject(Ref) ->
                cli' = [cli EXCEPT !.i = @ + 1] /\ UNCHANGED disk
         [] OTHER -> Throw
    /\ UNCHANGED <<src, dst>> /\ Remote

Activate ==
    /\ At("activate")
    /\ IF cli.i > Len(s.objects)
       THEN /\ disk' = [s EXCEPT !.phase = "completed"] /\ cli' = None
            /\ UNCHANGED dst
       ELSE /\ dst' = [dst EXCEPT !.alarms[Ref] = s.alarms[Ref]]
            /\ cli' = [cli EXCEPT !.i = @ + 1] /\ UNCHANGED disk
    /\ UNCHANGED src /\ Remote

\* abortTransfer: account by account, the target first
Disarm ==
    /\ At("disarm")
    /\ IF cli.i > Len(s.objects)
       THEN /\ disk' = [s EXCEPT !.phase = "aborted"] /\ cli' = None
            /\ UNCHANGED dst
       ELSE /\ cli' = IF Ref \in DOMAIN s.alarms THEN [cli EXCEPT !.pc = "rearm"]
                      ELSE [cli EXCEPT !.i = @ + 1]
            /\ dst' = IF Ref \in DOMAIN s.alarms
                      THEN [dst EXCEPT !.alarms = (Ref :> None) @@ @] ELSE dst
            /\ UNCHANGED disk
    /\ UNCHANGED src /\ Remote

Rearm ==
    /\ At("rearm")
    /\ src' = [src EXCEPT !.alarms[Ref] = s.alarms[Ref]]
    /\ cli' = [cli EXCEPT !.pc = "disarm", !.i = @ + 1]
    /\ UNCHANGED <<dst, disk>> /\ Remote

Step ==
    \/ Prepare \/ TakeInventory \/ Recheck \/ NextPause \/ Clear
    \/ Export \/ Stage \/ Import \/ EndImport
    \/ ReadPage \/ WritePage \/ NextPage
    \/ ReadObject \/ WriteObject \/ NextObject
    \/ Verify \/ CheckTable \/ CheckObject \/ Activate \/ Disarm \/ Rearm

-----------------------------------------------------------------------------
(* The world. *)

\* The process dies, or a call fails, with or without having taken effect.
Crash ==
    /\ cli # None /\ crashes < MaxCrashes
    /\ cli' = None /\ crashes' = crashes + 1
    /\ UNCHANGED <<via, src, dst, disk, touched, fired>>

\* An account's alarm runs (providers/oauth/account.ts alarm): it changes the
\* account and may set the next one.
Run(side, ref, next) ==
    [side EXCEPT !.alarms[ref] = next, !.objects[ref] = @ + 1]

Fire ==
    /\ Cardinality(fired) < MaxFires
    /\ \E ref \in DOMAIN SourceAlarms \ fired, next \in {None, "next"} :
         /\ \/ /\ src.alarms[ref] # None
               /\ src' = Run(src, ref, next) /\ UNCHANGED dst
            \/ /\ ref \in DOMAIN dst.alarms /\ dst.alarms[ref] # None
               /\ dst' = Run(dst, ref, next) /\ UNCHANGED src
         /\ fired' = fired \cup {ref}
    /\ UNCHANGED <<via, disk, cli, touched, crashes>>

\* The source is not as idle as its operator said: a row is written, or the
\* tokens of an account are refreshed.  The write is late if this process will
\* not read the tables, or the accounts, again.
Checking == (cli # None /\ cli.pc \in Checks) \/ Phase = "activating"

Touch ==
    /\ touched = "never" /\ Phase \notin {"none"} \cup Ended
    /\ \/ /\ \E n \in Range(Tables) : \E k \in DOMAIN src.tables[n] :
                src' = [src EXCEPT !.tables[n][k] = Overwritten]
          /\ touched' = IF Checking \/ (cli # None /\ cli.export # None) THEN "late" ELSE "before"
       \/ /\ \E ref \in DOMAIN src.objects : src' = [src EXCEPT !.objects[ref] = Overwritten]
          /\ touched' = IF Checking THEN "late" ELSE "before"
    /\ UNCHANGED <<via, dst, disk, cli, fired, crashes>>

Next == Begin \/ Resume \/ Abort \/ Step \/ Crash \/ Fire \/ Touch

\* The operator starts the task, lets the process run and starts it again.
Fairness ==
    /\ WF_vars(Begin) /\ WF_vars(Step) /\ WF_vars(Resume)
    /\ WF_vars(Abort /\ Phase = "aborting")

Spec == Init /\ [][Next]_vars /\ Fairness

-----------------------------------------------------------------------------
(* Properties. *)

Armed(side) == {ref \in DOMAIN side.alarms : side.alarms[ref] # None}
Moved == IF disk = None THEN {} ELSE Range(disk.objects)

\* The two deployments never both refresh the same accounts: no alarm of the
\* target is set while a moved account of the source has one, and once the
\* target was woken up the task can no longer be aborted (runner.ts: "Target
\* scheduling has been enabled; do not restart the old source").
OneSideAwake ==
    /\ Armed(dst) = {} \/ Armed(src) \cap Moved = {}
    /\ Armed(dst) # {} => Phase \in {"activating", "completed"}

\* An alarm that was set when the task began, and has not run since, is set
\* on one side or waits in the journal; and where the task ends it is set:
\* on the target when it completed, on the source when it was aborted
\* (runner.ts transferInstances, abortTransfer).
AlarmsAreKept ==
    \A ref \in Armed([alarms |-> SourceAlarms]) \ fired :
        LET kept(side) == ref \in DOMAIN side.alarms /\ side.alarms[ref] = SourceAlarms[ref]
        IN  CASE ref \notin Moved -> kept(src)
              [] ref \in Moved /\ Phase = "completed" -> kept(dst)
              [] ref \in Moved /\ Phase = "aborted" -> kept(src)
              [] OTHER -> kept(src) \/ kept(dst) \/ kept(disk)

\* A target that was woken up holds every row and every account of the
\* source, whatever died on the way and even if the source was written to
\* meanwhile; all that may be missing is a write that came after the process had
\* begun to read the source for the last time (runner.ts, the phases tables to
\* verifying; docs/data-transfer.md asks to keep the source stopped for its sake).
Missed(value) == touched = "late" /\ value = Overwritten

CopyIsExact ==
    Phase \in {"activating", "completed"} =>
        /\ \A n \in Range(Tables) :
              /\ DOMAIN dst.tables[n] = DOMAIN src.tables[n]
              /\ \A k \in DOMAIN src.tables[n] :
                    dst.tables[n][k] = src.tables[n][k] \/ Missed(src.tables[n][k])
        /\ \A ref \in Moved :
              ref \in fired \/ dst.objects[ref] = src.objects[ref] \/ Missed(src.objects[ref])

NothingLost == AlarmsAreKept /\ CopyIsExact

\* A transfer is safe at every moment.
TransferIsSafe == OneSideAwake /\ NothingLost

\* If the source was idle, no crash and no lost answer makes a repeated call
\* fail: the task can always be brought to an end by starting it again
\* (runner.ts: "All remote writes are replayable").
Over == touched # "never" \/ Phase \in Ended
Finishes == []<>Over
=============================================================================
