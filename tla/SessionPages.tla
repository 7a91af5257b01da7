---------------------------- MODULE SessionPages ----------------------------
(***************************************************************************)
(* A viewer pages through a list of sessions, a document's or a skill's,   *)
(* newest first, while sessions are written and archived.                  *)
(*                                                                         *)
(* A page is two reads: the row the cursor names, and a window of the rows *)
(* that are older than it was.  Of the window the rows the viewer may see  *)
(* and the filter keeps are shown.  A row that does not parse counts as    *)
(* one that may not be seen.                                               *)
(***************************************************************************)
EXTENDS Access, Workload, Sequences, SequencesExt

CONSTANTS
    MaxRows,
    Rows,        \* by row, its owner and access control
    FirstRows,   \* the rows there are at the start
    Viewer,      \* an access context
    PageSize

ASSUME PagesAssumption == MaxRows \in Nat /\ PageSize \in Nat \ {0}

RowId == 1 .. MaxRows
Lists == {"mine", "team", "all", "skill"}
MaxClock == 2 * MaxRows

VARIABLES
    newest,    \* the last lastMessageAt that was written
    last,      \* a row's lastMessageAt, 0 if there is no such row yet
    archived,  \* the rows whose archivedAt is set
    pager,     \* the client: its list, its cursor, and what it was shown
    \* Histories, read by properties only:
    touched,   \* rows written or archived since the paging began
    moved      \* the row that ended a page was written before the next was asked for

pagesVars == <<newest, last, archived, pager, touched, moved>>

\* after: the lastMessageAt of the cursor's row as it was read.  starved: a window was full
\* and held less than a page.
NoPager == [list |-> "all", at |-> "idle", cursor |-> 0, after |-> 0, shown |-> <<>>, starved |-> FALSE]

\* can_access and the filter; a skill's list is the viewer's own.
Passes(list, r) ==
    LET own == Rows[r].owner = Viewer.uid
    IN  /\ CanAccess(Rows[r].access, Viewer, Rows[r].owner)
        /\ list \in {"mine", "skill"} => own
        /\ list = "team" => ~own

\* The rows the query orders: a skill's query asks for the owner's only.
Listed(list) == {r \in RowId : last[r] > 0 /\ r \notin archived
                               /\ (list = "skill" => Rows[r].owner = Viewer.uid)}
NewestFirst(S) ==
    [k \in 1 .. Cardinality(S) |-> CHOOSE r \in S : Cardinality({q \in S : last[q] > last[r]}) = k - 1]
Prefix(seq, n) == SubSeq(seq, 1, IF n < Len(seq) THEN n ELSE Len(seq))

WindowSize(list) == IF list = "skill" THEN PageSize + 1 ELSE 4 * PageSize
Window(list, after) == Prefix(NewestFirst({r \in Listed(list) : last[r] < after}), WindowSize(list))

\* next_cursor: the last row shown, if the page is full.
\* Mutant: of the last row read.
CursorOfWindow(page, window) == IF Len(page) = PageSize THEN window[Len(window)] ELSE 0
NextCursor(page, window) == IF Len(page) = PageSize THEN page[Len(page)] ELSE 0

Opens(list) ==
    /\ pager.at \in {"idle", "end"} /\ Issues("page")
    /\ pager' = [NoPager EXCEPT !.list = list, !.at = "query", !.after = MaxClock + 1]
    /\ touched' = {} /\ moved' = FALSE
    /\ UNCHANGED <<newest, last, archived>>

OpenDocument == \E list \in {"mine", "team", "all"} : Opens(list)
OpenSkill == Opens("skill")

\* The next page: the cursor's row is read.
ReadCursor ==
    /\ pager.at = "more"
    /\ pager' = [pager EXCEPT !.at = "query", !.after = last[pager.cursor]]
    /\ UNCHANGED <<load, newest, last, archived, touched, moved>>

\* The window is queried, and cut to a page of what may be shown.
ReadPage ==
    LET window == Window(pager.list, pager.after)
        page == Prefix(NewestFirst({r \in Range(window) : Passes(pager.list, r)}), PageSize)
        cursor == NextCursor(page, window)
    IN  /\ pager.at = "query"
        /\ pager' = [pager EXCEPT !.shown = @ \o page, !.cursor = cursor,
                                  !.at = IF cursor = 0 THEN "end" ELSE "more",
                                  !.starved = @ \/ (Len(window) = WindowSize(pager.list) /\ cursor = 0)]
        /\ UNCHANGED <<load, newest, last, archived, touched, moved>>

\* A turn writes a row, an old or a new one; an owner archives one.
Touch ==
    /\ Issues("touch") /\ newest < MaxClock
    /\ newest' = newest + 1
    /\ \E r \in RowId :
          /\ last' = [last EXCEPT ![r] = newest'] /\ touched' = touched \union {r}
          /\ moved' = (moved \/ (pager.at = "more" /\ r = pager.cursor))
    /\ UNCHANGED <<archived, pager>>
Archive ==
    /\ Issues("archive")
    /\ \E r \in RowId \ archived :
          last[r] > 0 /\ archived' = archived \union {r} /\ touched' = touched \union {r}
    /\ UNCHANGED <<newest, last, pager, moved>>

PagesInit ==
    /\ newest = MaxRows
    /\ last = [r \in RowId |-> IF r \in FirstRows THEN r ELSE 0]
    /\ archived = {} /\ pager = NoPager /\ touched = {} /\ moved = FALSE

PagesNext == OpenDocument \/ OpenSkill \/ ReadCursor \/ ReadPage \/ Touch \/ Archive

-----------------------------------------------------------------------------
(* Properties.                                                             *)

PagesTypeOK ==
    /\ newest \in 0 .. MaxClock /\ last \in [RowId -> 0 .. newest]
    /\ archived \subseteq RowId /\ touched \subseteq RowId /\ moved \in BOOLEAN
    /\ pager.list \in Lists /\ pager.cursor \in 0 .. MaxRows /\ pager.after \in 0 .. MaxClock + 1

\* No row is shown twice, whatever is written to it and to others, unless the row that ended
\* a page was itself written to before the next page was asked for: the next window then
\* begins where that row has gone, and shows again what was shown (chat_sessions.py:145-152).
ShownOnce ==
    ~moved => \A j, k \in DOMAIN pager.shown : pager.shown[j] = pager.shown[k] => j = k

\* A viewer who pages to the end was shown every session it may see that nothing was
\* written to meanwhile, whatever was written to others, the rows that ended a page
\* included, unless a window of rows held less than a page of such, where the list ends
\* early; and none twice, with the exception of ShownOnce.
PagesComplete ==
    /\ pager.at = "end" /\ ~pager.starved =>
          \A r \in Listed(pager.list) \ touched :
             Passes(pager.list, r) => \E k \in DOMAIN pager.shown : pager.shown[k] = r
    /\ ShownOnce
=============================================================================
