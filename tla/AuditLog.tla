------------------------------- MODULE AuditLog -------------------------------
(***************************************************************************)
(* The audit log (persistence/audit.go, application/audit.go,               *)
(* domain/audit): how events get into it, with an administrative change or  *)
(* by the bounded writer of a replica, how retention takes them out again,  *)
(* and how a reader pages through an export meanwhile.                      *)
(*                                                                         *)
(* An event has its time when it is made, and is written later: with the    *)
(* commit of the change it records, or when the writer comes to it.  The    *)
(* log is ordered by that time and then by id, and ids are random.  An      *)
(* event is modelled by what paging, scope and retention ask of it.  All    *)
(* events are of one installation; replicas have one clock.                 *)
(***************************************************************************)
EXTENDS Naturals, FiniteSets, Sequences, SequencesExt

CONSTANTS
    Replica,     \* processes of the API, each with its writer
    Project,
    Id,          \* bound: ids of events, which are the events there may be
    Capacity,    \* of the queue of a writer
    PageSize,    \* events that are asked for at a time
    Period,      \* of the retention policy
    MaxTime      \* bound

ASSUME AuditAssumption ==
    /\ IsFiniteSet(Replica) /\ IsFiniteSet(Project)
    /\ Id \subseteq Nat /\ IsFiniteSet(Id)
    /\ Capacity \in Nat \ {0} /\ PageSize \in Nat \ {0}
    /\ {Period, MaxTime} \subseteq Nat \ {0}

VARIABLES
    log,          \* table audit_events
    change,       \* events of changes whose transactions are not committed yet
    writer,       \* the BoundedAuditWriter of a replica
    export,       \* an export under way
    access,       \* what the reader may read: all, or some projects
    sweep,        \* the retention under way
    fresh,        \* ids that were not given yet
    denied,       \* history: events a writer was asked to write since it started
    written,      \* history: ids of events that were once in the log
    now

auditVars == <<log, change, writer, export, access, sweep, fresh, denied, written, now>>

None == "none"
\* Who may read the installation reads the events without a project too.
All == Project \cup {None}

\* Denials have no project.  An event is held until a time, 0 if it is not;
\* an indefinite hold lasts until after MaxTime.
Events == [id : Id, at : Nat, project : Project \cup {None}, expires : Nat, held : Nat]

Writers == [queue : Seq(Events), taken : SUBSET Events, failed : Nat, overloaded : Nat]
Started == [queue |-> <<>>, taken |-> {}, failed |-> 0, overloaded |-> 0]

\* owed: history, the events of the log that stood and could be read since the
\* export began.
Exports == [at : {"idle", "paging", "ended", "refused"}, project : Project \cup {None},
            got : Seq(Events), owed : SUBSET Events]
NoExport == [at |-> "idle", project |-> None, got |-> <<>>, owed |-> {}]

Sweeps == [at : Nat, selected : SUBSET Id]
NoSweep == [at |-> 0, selected |-> {}]

AuditInit ==
    /\ log = {} /\ change = {}
    /\ writer = [r \in Replica |-> Started]
    /\ export = NoExport /\ access = All /\ sweep = NoSweep
    /\ fresh = Id /\ written = {}
    /\ denied = [r \in Replica |-> {}]
    /\ now = 1

-----------------------------------------------------------------------------
(* Writing                                                                 *)

\* NewEvent, with the period of the policy and the hold it is appended with.
Event(i, project, held) ==
    [id |-> i, at |-> now, project |-> project, expires |-> now + Period, held |-> held]

\* appendAuditEvent
Appended(e) == log' = log \cup {e} /\ written' = written \cup {e.id}

\* withAdministrativeAudit: the event is made before the transaction.
BeginChange(i) ==
    /\ i \in fresh
    /\ \E p \in Project \cup {None}, held \in {0, now + Period + 1} :
         change' = change \cup {Event(i, p, held)}
    /\ fresh' = fresh \ {i}
    /\ UNCHANGED <<log, writer, export, access, sweep, denied, written, now>>

\* auditTransaction: the change and its event are committed, or neither is.
EndChange(e) ==
    /\ e \in change
    /\ change' = change \ {e}
    /\ Appended(e) \/ UNCHANGED <<log, written>>
    /\ UNCHANGED <<writer, export, access, sweep, fresh, denied, now>>

\* auditDenialMiddleware and TryAppend: an event that finds the queue full is
\* not written, and counted.
Deny(r, i) ==
    /\ i \in fresh
    /\ LET e == Event(i, None, 0)
           w == writer[r]
       IN /\ writer' = [writer EXCEPT ![r] =
               IF Len(w.queue) < Capacity THEN [w EXCEPT !.queue = Append(@, e)]
               ELSE [w EXCEPT !.overloaded = @ + 1]]
          /\ denied' = [denied EXCEPT ![r] = @ \cup {e}]
    /\ fresh' = fresh \ {i}
    /\ UNCHANGED <<log, change, export, access, sweep, written, now>>

\* Run takes an event from the queue and appends it.
Take(r) ==
    /\ writer[r].taken = {} /\ writer[r].queue # <<>>
    /\ writer' = [writer EXCEPT ![r].taken = {Head(writer[r].queue)}, ![r].queue = Tail(@)]
    /\ UNCHANGED <<log, change, export, access, sweep, fresh, denied, written, now>>

\* Mutant: an error ends the append, and is not counted.
FailUncounted(r) == writer' = [writer EXCEPT ![r].taken = {}]
\* The event is not tried again.
Fail(r) == writer' = [writer EXCEPT ![r].taken = {}, ![r].failed = @ + 1]

\* The append succeeds, or fails, or fails after the event was inserted.
WriteTaken(r) ==
    /\ writer[r].taken # {}
    /\ \E e \in writer[r].taken :
         \/ Appended(e) /\ (Fail(r) \/ writer' = [writer EXCEPT ![r].taken = {}])
         \/ UNCHANGED <<log, written>> /\ Fail(r)
    /\ UNCHANGED <<change, export, access, sweep, fresh, denied, now>>

\* The process stops, in order or not, and starts again: what is queued is
\* gone, and the counters are.
Restart(r) ==
    /\ writer[r] # Started
    /\ writer' = [writer EXCEPT ![r] = Started]
    /\ denied' = [denied EXCEPT ![r] = {}]
    /\ UNCHANGED <<log, change, export, access, sweep, fresh, written, now>>

-----------------------------------------------------------------------------
(* Retention                                                               *)

\* DecideRetention, with the hold first.
DecideRetention(e, at) ==
    IF at < e.held THEN "RETAIN_FOR_LEGAL_HOLD"
    ELSE IF at < e.at + Period THEN "RETAIN_FOR_POLICY" ELSE "ELIGIBLE_FOR_DELETE"

\* Mutant: only an indefinite hold is looked at.
RemovableWhenExpired(e, at) == e.expires <= at /\ e.held <= MaxTime

\* The condition of both statements.
Removable(e, at) == e.expires <= at /\ e.held <= at

Before(d, e) == d.at < e.at \/ (d.at = e.at /\ d.id < e.id)
Rank(e, events) == Cardinality({d \in events : Before(d, e)}) + 1
InOrder(events) ==
    [n \in 1..Cardinality(events) |-> CHOOSE e \in events : Rank(e, events) = n]
FirstOf(events, n) == LET s == InOrder(events) IN SubSeq(s, 1, IF Len(s) < n THEN Len(s) ELSE n)

\* SelectAuditRetentionCandidates: all have one period, and expire in the
\* order in which they occurred.
SelectAuditRetentionCandidates ==
    /\ sweep = NoSweep
    /\ \E e \in log : Removable(e, now)
    /\ sweep' = [at |-> now, selected |-> {e.id : e \in
                   ToSet(FirstOf({e \in log : Removable(e, now)}, PageSize))}]
    /\ UNCHANGED <<log, change, writer, export, access, fresh, denied, written, now>>

DeleteAuditRetentionCandidates ==
    /\ sweep # NoSweep
    /\ log' = {e \in log : ~(e.id \in sweep.selected /\ Removable(e, sweep.at))}
    /\ sweep' = NoSweep
    /\ export' = [export EXCEPT !.owed = @ \cap log']
    /\ UNCHANGED <<change, writer, access, fresh, denied, written, now>>

-----------------------------------------------------------------------------
(* Export                                                                  *)

\* authorizedFilter: the projects the reader may read, or the one that was
\* asked for, if it is among them.
Readable(who, project, e) ==
    /\ e.project \in who
    /\ project = None \/ e.project = project

BeginExport ==
    /\ export = NoExport
    /\ \E p \in Project \cup {None} :
         export' = [NoExport EXCEPT !.at = "paging", !.project = p,
                                    !.owed = {e \in log : Readable(access, p, e)}]
    /\ UNCHANGED <<log, change, writer, access, sweep, fresh, denied, written, now>>

\* Mutant: the cursor is only the time.
LaterThan(e, got) == got = <<>> \/ Last(got).at < e.at
\* The cursor is the last event of the page before.
After(e, got) == got = <<>> \/ Before(Last(got), e)

\* ExportPage and ReadAuditEvents: one more is read than is asked for, to know
\* whether there is more.
ExportPage ==
    /\ export.at = "paging"
    /\ access # {}
    /\ LET found == {e \in log : Readable(access, export.project, e) /\ After(e, export.got)}
           more == Cardinality(found) > PageSize
       IN export' = [export EXCEPT !.got = @ \o FirstOf(found, PageSize),
                                   !.at = IF more THEN "paging" ELSE "ended"]
    /\ UNCHANGED <<log, change, writer, access, sweep, fresh, denied, written, now>>

\* A reader who may not read anything is refused.
ExportRefused ==
    /\ export.at = "paging" /\ access = {}
    /\ export' = [export EXCEPT !.at = "refused"]
    /\ UNCHANGED <<log, change, writer, access, sweep, fresh, denied, written, now>>

NextExport ==
    /\ export.at \in {"ended", "refused"}
    /\ export' = NoExport
    /\ UNCHANGED <<log, change, writer, access, sweep, fresh, denied, written, now>>

\* Roles of the reader are given or taken: each page asks again.
ChangeAccess ==
    /\ access' \in {All} \cup SUBSET Project
    /\ access' # access
    /\ export' = [export EXCEPT !.owed = {e \in @ : Readable(access', export.project, e)}]
    /\ UNCHANGED <<log, change, writer, sweep, fresh, denied, written, now>>

Tick ==
    /\ now < MaxTime
    /\ now' = now + 1
    /\ UNCHANGED <<log, change, writer, export, access, sweep, fresh, denied, written>>

-----------------------------------------------------------------------------
AuditNext ==
    \/ \E i \in Id : BeginChange(i) \/ \E r \in Replica : Deny(r, i)
    \/ \E e \in change : EndChange(e)
    \/ \E r \in Replica : Take(r) \/ WriteTaken(r) \/ Restart(r)
    \/ SelectAuditRetentionCandidates \/ DeleteAuditRetentionCandidates
    \/ BeginExport \/ ExportPage \/ ExportRefused \/ NextExport \/ ChangeAccess
    \/ Tick

AuditSpec == AuditInit /\ [][AuditNext]_auditVars
-----------------------------------------------------------------------------
(* Properties                                                              *)

\* Types of the variables.
AuditTypeOK ==
    /\ log \subseteq Events /\ change \subseteq Events
    /\ \A r \in Replica :
         /\ writer[r] \in [queue : Seq(Events), taken : SUBSET Events,
                           failed : Nat, overloaded : Nat]
         /\ Len(writer[r].queue) <= Capacity
         /\ denied[r] \subseteq Events
    /\ export \in Exports /\ access \in {All} \cup SUBSET Project
    /\ sweep \in Sweeps
    /\ fresh \subseteq Id /\ written \subseteq Id
    /\ now \in 1..MaxTime

\* An export that came to its end has every event that was in the log when it
\* began, could be read all along and was not removed by retention; and what
\* it has is in order, each event once: whatever is written, removed and
\* granted between its pages.
ExportIsComplete ==
    export.at = "ended" =>
      /\ export.owed \subseteq ToSet(export.got)
      /\ \A m, n \in DOMAIN export.got : m < n => Before(export.got[m], export.got[n])

\* ADR 0011: overload and loss are visible.  As long as a process runs, what
\* it was to write and is neither in the log nor still to be written is no
\* more than what its writer counted.
DenialLossIsCounted ==
    \A r \in Replica :
      LET w == writer[r]
          lost == {e \in denied[r] : e.id \notin written} \ (ToSet(w.queue) \cup w.taken)
      IN Cardinality(lost) <= w.failed + w.overloaded

\* The statements of retention remove nothing that DecideRetention, which no
\* statement asks, would have kept at that time.
RemovalIsDecided ==
    [][\A e \in log \ log' : DecideRetention(e, now) = "ELIGIBLE_FOR_DELETE"]_auditVars
=============================================================================
