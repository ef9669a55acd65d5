--------------------------- MODULE Startup_proofs ---------------------------
(***************************************************************************)
(* Theorems of Startup, for any number of threads and approvals, any       *)
(* number of crashes and any state an earlier version may have left.       *)
(***************************************************************************)
EXTENDS Startup, TLAPS

\* What a start has seen of the columns is there, and a row needs a table.
MigrationInv ==
    /\ \A t \in Threads : start[t].pc \in {"migrate", "fill"} => start[t].seen \subseteq columns
    /\ table = FALSE => \A id \in Ids : deadline[id] # "null"

StartupInv == StartupTypeOK /\ MigrationInv /\ UnreadableOnlyIfCut

Deadlines == {"absent", "null", "filled", "own"}
Starts == [pc : {"idle", "create", "inspect", "migrate", "fill", "serve"}, seen : SUBSET Columns]

LEMMA InitStartup == StartupInit => StartupInv
<1> SUFFICES ASSUME StartupInit PROVE StartupInv
  OBVIOUS
<1>1. columns \subseteq Columns /\ table \in BOOLEAN
  BY DEF StartupInit
<1>2. deadline \in [Ids -> Deadlines]
  BY DEF StartupInit, Deadlines
<1>3. "expires_at" \in columns \/ table = FALSE => \A id \in Ids : deadline[id] # "null"
  BY DEF StartupInit
<1>4. start \in [Threads -> Starts] /\ \A t \in Threads : start[t].pc = "idle"
  BY DEF StartupInit, Waiting, Starts
<1>5. service = FALSE /\ faults \in 0..MaxFaults /\ cut = FALSE
  BY StartupAssumption DEF StartupInit
<1>6. StartupTypeOK
  BY <1>1, <1>2, <1>4, <1>5 DEF StartupTypeOK, At, Deadlines, Starts
<1>7. MigrationInv
  BY <1>3, <1>4 DEF MigrationInv
<1>8. UnreadableOnlyIfCut
  BY <1>3 DEF UnreadableOnlyIfCut
<1> QED
  BY <1>6, <1>7, <1>8 DEF StartupInv

\* One case per action; <1>1 to <1>3 are the invariant without its names, so that
\* each case is about the variables only.
LEMMA StepStartup == StartupInv /\ [StartupNext]_startupVars => StartupInv'
<1> SUFFICES ASSUME StartupInv, [StartupNext]_startupVars
             PROVE  StartupInv'
  OBVIOUS
<1> USE DEF Deadlines, Starts
<1>1. /\ table \in BOOLEAN /\ columns \subseteq Columns /\ deadline \in [Ids -> Deadlines]
      /\ service \in BOOLEAN /\ start \in [Threads -> Starts]
      /\ faults \in 0..MaxFaults /\ cut \in BOOLEAN
      /\ service \/ (\E t \in Threads : start[t].pc = "serve") => columns = Columns
  BY DEF StartupInv, StartupTypeOK, At
<1>2. /\ \A t \in Threads : start[t].pc \in {"migrate", "fill"} => start[t].seen \subseteq columns
      /\ table = FALSE => \A id \in Ids : deadline[id] # "null"
  BY DEF StartupInv, MigrationInv
<1>3. "expires_at" \in columns /\ (\E id \in Ids : deadline[id] = "null") =>
        cut \/ \E t \in Threads : start[t].pc = "fill"
  BY DEF StartupInv, UnreadableOnlyIfCut, At
<1> DEFINE Goal ==
      /\ table' \in BOOLEAN /\ columns' \subseteq Columns /\ deadline' \in [Ids -> Deadlines]
      /\ service' \in BOOLEAN /\ start' \in [Threads -> Starts]
      /\ faults' \in 0..MaxFaults /\ cut' \in BOOLEAN
      /\ service' \/ (\E t \in Threads : start'[t].pc = "serve") => columns' = Columns
      /\ \A t \in Threads : start'[t].pc \in {"migrate", "fill"} => start'[t].seen \subseteq columns'
      /\ table' = FALSE => \A id \in Ids : deadline'[id] # "null"
      /\ "expires_at" \in columns' /\ (\E id \in Ids : deadline'[id] = "null") =>
           cut' \/ \E t \in Threads : start'[t].pc = "fill"
<1>4. SUFFICES Goal
  BY DEF StartupInv, StartupTypeOK, MigrationInv, UnreadableOnlyIfCut, At
<1>5. ASSUME NEW t \in Threads, Arrive(t) PROVE Goal
  BY <1>1, <1>2, <1>3, <1>5 DEF Arrive, At
<1>6. ASSUME NEW t \in Threads, CreateTables(t) PROVE Goal
  BY <1>1, <1>2, <1>3, <1>6 DEF CreateTables, At
<1>7. ASSUME NEW t \in Threads, Inspect(t) PROVE Goal
  BY <1>1, <1>2, <1>3, <1>7 DEF Inspect, At
<1>8. ASSUME NEW t \in Threads, NEW c \in Columns, AddColumn(t, c) PROVE Goal
  BY <1>1, <1>2, <1>3, <1>8 DEF AddColumn, At
<1>9. ASSUME NEW t \in Threads, NEW c \in Columns, LoseRace(t, c) PROVE Goal
  BY <1>1, <1>2, <1>3, <1>9 DEF LoseRace, At, Waiting
<1>10. ASSUME NEW t \in Threads, Fill(t) PROVE Goal
  BY <1>1, <1>2, <1>3, <1>10 DEF Fill, At
<1>11. ASSUME NEW t \in Threads, Publish(t) PROVE Goal
  BY <1>1, <1>2, <1>3, <1>11 DEF Publish, At
<1>12. ASSUME NEW t \in Threads, NEW id \in Ids, Serve(t, id) PROVE Goal
  BY <1>1, <1>2, <1>3, <1>12 DEF Serve, At, Waiting
<1>13. ASSUME NEW t \in Threads, Raise(t) PROVE Goal
  BY <1>1, <1>2, <1>3, <1>13, StartupAssumption DEF Raise, At, Waiting, Starting
<1>14. ASSUME Crash PROVE Goal
  <2>1. start' \in [Threads -> Starts] /\ \A t \in Threads : start'[t].pc = "idle"
    BY <1>14 DEF Crash, Waiting
  <2>2. faults' \in 0..MaxFaults
    BY <1>1, <1>14, StartupAssumption DEF Crash
  <2>3. cut' \in BOOLEAN /\ (cut' <=> cut \/ \E t \in Threads : start[t].pc = "fill")
    BY <1>1, <1>14, Zenon DEF Crash, At
  <2>4. UNCHANGED <<table, columns, deadline>> /\ service' = FALSE
    BY <1>14 DEF Crash
  <2> QED
    BY <1>1, <1>2, <1>3, <2>1, <2>2, <2>3, <2>4
<1>15. ASSUME UNCHANGED startupVars PROVE Goal
  BY <1>1, <1>2, <1>3, <1>15 DEF startupVars
<1> QED
  BY <1>5, <1>6, <1>7, <1>8, <1>9, <1>10, <1>11, <1>12, <1>13, <1>14, <1>15
  DEF StartupNext, StartStep

LEMMA StartupInvariant == StartupSpec => []StartupInv
  BY InitStartup, StepStartup, PTL DEF StartupSpec

\* The variables keep their types, and a request is only served, by whichever
\* start made its service, when the table has every column the code reads.
THEOREM StartupTypes == StartupSpec => []StartupTypeOK
  BY StartupInvariant, PTL DEF StartupInv

\* Whatever starts collide, an approval without a deadline is one whose
\* migration is under way or was cut between its two statements.
THEOREM UnreadableExplained == StartupSpec => []UnreadableOnlyIfCut
  BY StartupInvariant, PTL DEF StartupInv

\* No start moves a deadline that is set.
THEOREM DeadlinesStand == StartupSpec => DeadlineStands
<1> DEFINE Stands == \A id \in Ids : deadline[id] \in {"filled", "own"} => deadline'[id] = deadline[id]
<1>1. StartupInv /\ [StartupNext]_startupVars => [Stands]_startupVars
  <2> SUFFICES ASSUME StartupInv, StartupNext PROVE Stands
    OBVIOUS
  <2>1. deadline \in [Ids -> Deadlines]
    BY DEF StartupInv, StartupTypeOK, Deadlines
  <2>2. ASSUME NEW t \in Threads, Fill(t) PROVE Stands
    BY <2>1, <2>2 DEF Fill
  <2>3. ASSUME NEW t \in Threads, NEW id \in Ids, Serve(t, id) PROVE Stands
    BY <2>1, <2>3 DEF Serve
  <2>4. ASSUME UNCHANGED deadline PROVE Stands
    BY <2>4
  <2> QED
    BY <2>2, <2>3, <2>4 DEF StartupNext, StartStep, Arrive, CreateTables, Inspect, AddColumn,
       LoseRace, Publish, Raise, Crash
<1> QED
  BY <1>1, StartupInvariant, PTL DEF StartupSpec, DeadlineStands
=============================================================================
