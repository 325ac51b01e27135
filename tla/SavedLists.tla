------------------------------ MODULE SavedLists ------------------------------
(***************************************************************************)
(* One golfer's saved lists: saves.py, with the seeding of dream courses   *)
(* by onboarding and the save of a featured course.                        *)
(*                                                                         *)
(* A request reads without locks, then writes and commits.  Two writes of  *)
(* one row exclude each other, so the writing statements of a request are  *)
(* one step, but delete_saved_list, which clears the activity of the list  *)
(* before it locks the row, has two.  Requests that may create the user    *)
(* hold the identity lock from their first read on.                        *)
(***************************************************************************)
EXTENDS FiniteSets, Naturals

CONSTANTS Courses,     \* course rows; some are mapped to another one
          Canonical,   \* the course each is mapped to
          OldLists,    \* bound: lists there are in the beginning
          Saving       \* bound: requests of a behaviour

ASSUME SavedListsAssumption ==
  /\ Canonical \in [Courses -> Courses]
  /\ \A c \in Courses : Canonical[Canonical[c]] = Canonical[c]
  /\ OldLists \in Nat /\ Saving \in Nat

VARIABLES
  lists,       \* rows of saved_lists by id; ids grow with created_at
  saves,       \* rows of saved_courses: <<list, course>>
  activity,    \* course_saved events: [save, vis]
  saver,       \* the requests, in the order they start
  overlapped,  \* history: two requests have been under way together
  chosen       \* history: the last commit made a list the default, with nothing else under way

savedVars == <<lists, saves, activity, saver, overlapped, chosen>>

Savers  == 1..Saving
ListIds == 1..(OldLists + Saving)
ListNames == {"Want to play", "other"}
ListVisibilities == {"private", "public"}
NoList == [name |-> "none", vis |-> "private", default |-> FALSE]
ListRow == [name : ListNames \cup {"none"}, vis : ListVisibilities, default : BOOLEAN]

IsList(l) == lists[l].name # "none"
AllLists == {l \in ListIds : IsList(l)}
Defaults == {l \in AllLists : lists[l].default}
Oldest(S) == CHOOSE l \in S : \A k \in S : l <= k
Twins(c) == {d \in Courses : Canonical[d] = Canonical[c]}
Matching(l, c) == {s \in saves : s[1] = l /\ s[2] \in Twins(c)}
SavedIn(l) == {s \in saves : s[1] = l}
EventsAbout(S) == {e \in activity : e.save \in S}

Absent == [op |-> "absent", pc |-> "read", list |-> 0, course |-> 0, name |-> "none", vis |-> "private",
           was |-> NoList, flag |-> FALSE, seen |-> {}, cleared |-> {}, sole |-> TRUE]
Saver == [op : {"absent", "gone", "create", "update", "delete", "save", "remove", "dream",
                "featured"},
          pc : {"read", "cleared"}, list : ListIds \cup {0}, course : Courses \cup {0},
          name : ListNames \cup {"none"}, vis : ListVisibilities,
          was : ListRow, flag : BOOLEAN,
          seen : SUBSET (ListIds \X Courses),
          cleared : SUBSET [save : ListIds \X Courses, vis : ListVisibilities], sole : BOOLEAN]
UnderWay == {j \in Savers : saver[j].op \notin {"absent", "gone"}}

SavedInit ==
  /\ \E n \in 0..OldLists, vis \in ListVisibilities, d \in 1..OldLists, S \in SUBSET Courses :
       /\ n > 0 => d <= n
       /\ lists = [l \in ListIds |->
                     IF l > n THEN NoList
                     ELSE [name |-> IF l = 1 THEN "other" ELSE "Want to play", vis |-> vis, default |-> l = d]]
       \* Courses saved before they were mapped keep their own rows.
       /\ saves = IF n = 0 THEN {} ELSE {1} \X S
       /\ activity = {[save |-> s, vis |-> vis] : s \in IF n = 0 THEN {} ELSE {1} \X S}
  /\ saver = [j \in Savers |-> Absent]
  /\ overlapped = FALSE /\ chosen = FALSE

-----------------------------------------------------------------------------
(* Reading.                                                                *)

Arrives(j, w) ==
  /\ saver[j] = Absent /\ \A i \in 1..(j - 1) : saver[i] # Absent
  /\ saver' = [i \in Savers |-> IF i = j THEN [w EXCEPT !.sole = UnderWay = {}]
                                ELSE IF i \in UnderWay THEN [saver[i] EXCEPT !.sole = FALSE] ELSE saver[i]]
  /\ overlapped' = (overlapped \/ UnderWay # {})
  /\ UNCHANGED <<lists, saves, activity, chosen>>

\* require_user(create=True) waits for the identity lock.
IdentityFree == \A i \in UnderWay : saver[i].op \notin {"create", "dream"}

\* create_saved_list looks whether the golfer has any list yet.
FirstList == AllLists = {}
CreateSavedList(j) ==
  /\ IdentityFree
  /\ \E name \in ListNames, vis \in ListVisibilities, flag \in BOOLEAN :
       Arrives(j, [Absent EXCEPT !.op = "create", !.name = name, !.vis = vis, !.flag = flag \/ FirstList])

\* A list is made the default or left as it is: unsetting the default is refused.
UpdateSavedList(j) ==
  \E l \in AllLists, name \in ListNames, vis \in ListVisibilities, flag \in BOOLEAN :
    Arrives(j, [Absent EXCEPT !.op = "update", !.list = l, !.was = lists[l], !.name = name,
                              !.vis = vis, !.flag = flag])

\* delete_saved_list remembers was_default.
DeleteSavedList(j) ==
  \E l \in AllLists : Arrives(j, [Absent EXCEPT !.op = "delete", !.list = l, !.was = lists[l]])

\* save_course and remove_saved_course read the list and the rows of the course's identity.
SaveCourse(j) ==
  \E l \in AllLists, c \in Courses :
    Arrives(j, [Absent EXCEPT !.op = "save", !.list = l, !.course = Canonical[c], !.vis = lists[l].vis,
                              !.seen = Matching(l, c)])
RemoveSavedCourse(j) ==
  \E l \in AllLists, c \in Courses :
    /\ Matching(l, c) # {}
    /\ Arrives(j, [Absent EXCEPT !.op = "remove", !.list = l, !.course = Canonical[c], !.seen = Matching(l, c)])

\* save_course_to_default_list: the default list, or a new one, or when its name is taken
\* the first of all.  Dream courses are seeded under the identity lock, a featured course is
\* saved without it.
DreamList(j) ==
  IF Defaults # {} THEN Oldest(Defaults)
  ELSE IF \E l \in AllLists : lists[l].name = "Want to play" THEN Oldest(AllLists)
  ELSE OldLists + j
Dream(j) ==
  \E op \in {"dream", "featured"}, c \in Courses :
    LET l == DreamList(j) IN
    /\ op = "dream" => IdentityFree
    /\ Arrives(j, [Absent EXCEPT !.op = op, !.list = l, !.course = Canonical[c], !.seen = Matching(l, c),
                                 !.vis = IF IsList(l) THEN lists[l].vis ELSE "private", !.flag = FirstList])

-----------------------------------------------------------------------------
(* Writing and committing.                                                 *)

Ends(j) == saver' = [saver EXCEPT ![j] = [Absent EXCEPT !.op = "gone"]]
Fails(j) == Ends(j) /\ UNCHANGED <<lists, saves, activity, overlapped, chosen>>
Commits(j, makesDefault) ==
  Ends(j) /\ chosen' = (makesDefault /\ saver[j].sole) /\ UNCHANGED overlapped

\* _make_default takes the flag off every other list.
MakeDefault(table, l) == [k \in ListIds |-> IF k = l THEN table[k] ELSE [table[k] EXCEPT !.default = FALSE]]

CreateCommits(j) ==
  LET w == saver[j]   l == OldLists + j
      table == [lists EXCEPT ![l] = [name |-> w.name, vis |-> w.vis, default |-> w.flag]] IN
  /\ w.op = "create"
  /\ IF \E k \in AllLists : lists[k].name = w.name
     THEN Fails(j)
     ELSE /\ lists' = IF w.flag THEN MakeDefault(table, l) ELSE table
          /\ Commits(j, w.flag)
          /\ UNCHANGED <<saves, activity>>

\* Only a value that differs from the one read is written; a name that another list has by now is
\* refused.  The visibility goes to the events of the list, those of its courses.
UpdateCommits(j) ==
  LET w == saver[j]   renames == w.name # w.was.name
      written == [lists EXCEPT ![w.list].name = IF renames THEN w.name ELSE @,
                               ![w.list].vis = IF w.vis # w.was.vis THEN w.vis ELSE @,
                               ![w.list].default = @ \/ (w.flag /\ ~w.was.default)] IN
  /\ w.op = "update"
  /\ IF ~IsList(w.list) \/ (renames /\ \E k \in AllLists \ {w.list} : lists[k].name = w.name) THEN Fails(j)
     ELSE /\ lists' = IF w.flag THEN MakeDefault(written, w.list) ELSE written
          /\ activity' = {IF e.save[1] = w.list THEN [e EXCEPT !.vis = w.vis] ELSE e : e \in activity}
          /\ Commits(j, w.flag)
          /\ UNCHANGED saves

\* The events of the list are deleted first; the list, its rows and the choice of another
\* default follow.
ClearActivity(j) ==
  /\ saver[j].op = "delete" /\ saver[j].pc = "read"
  /\ saver' = [saver EXCEPT ![j].pc = "cleared", ![j].cleared = EventsAbout(SavedIn(saver[j].list))]
  /\ UNCHANGED <<lists, saves, activity, overlapped, chosen>>

\* Deviation: no list takes over from a default that is deleted.
NoHeir(table) == table
Heir(table) ==
  LET rest == {l \in ListIds : table[l].name # "none"} IN
  IF rest = {} THEN table ELSE [table EXCEPT ![Oldest(rest)].default = TRUE]
DeleteCommits(j) ==
  LET w == saver[j]   table == [lists EXCEPT ![w.list] = NoList] IN
  /\ w.op = "delete" /\ w.pc = "cleared"
  /\ lists' = IF w.was.default THEN Heir(table) ELSE table
  /\ saves' = saves \ SavedIn(w.list)
  /\ activity' = activity \ w.cleared
  /\ Commits(j, FALSE)

\* One of the rows that were found stays, under the canonical course; the others go, with
\* their events.  The event of the one that stays keeps its row, whatever its course.
SavedAs(w) == <<w.list, w.course>>
Stays(w) == IF SavedAs(w) \in w.seen THEN SavedAs(w) ELSE CHOOSE s \in w.seen : TRUE
\* The tables refuse a row of a list that is gone, changes of rows that are gone, and a
\* second row of the same course.
RefusedSave(w) ==
  \/ ~IsList(w.list)
  \/ ~(w.seen \subseteq saves)
  \/ SavedAs(w) \in saves \ w.seen
SaveCommits(j) ==
  LET w == saver[j]   row == SavedAs(w) IN
  /\ w.op = "save"
  /\ IF RefusedSave(w) THEN Fails(j)
     ELSE /\ saves' = (saves \ w.seen) \cup {row}
          /\ activity' =
               IF w.seen = {} THEN activity \cup {[save |-> row, vis |-> w.vis]}
               ELSE (activity \ EventsAbout(w.seen))
                      \cup {[e EXCEPT !.save = row] : e \in EventsAbout({Stays(w)})}
          /\ Commits(j, FALSE)
          /\ UNCHANGED lists

\* Deviation: the events of a removed course stay.
RemoveRowOnly(j) ==
  /\ saver[j].op = "remove"
  /\ saves' = saves \ saver[j].seen
  /\ Commits(j, FALSE)
  /\ UNCHANGED <<lists, activity>>
RemoveCommits(j) ==
  /\ saver[j].op = "remove"
  /\ saves' = saves \ saver[j].seen
  /\ activity' = activity \ EventsAbout(saver[j].seen)
  /\ Commits(j, FALSE)
  /\ UNCHANGED lists

\* The list is created if it is new; a course of the identity that is there stays.
PutDream(j, l, seen, vis, first) ==
  LET row == <<l, saver[j].course>> IN
  /\ lists' = IF IsList(l) THEN lists
              ELSE [lists EXCEPT ![l] = [name |-> "Want to play", vis |-> "private", default |-> first]]
  /\ IF seen # {} \/ row \in saves THEN UNCHANGED <<saves, activity>>
     ELSE saves' = saves \cup {row} /\ activity' = activity \cup {[save |-> row, vis |-> vis]}
  /\ Commits(j, FALSE)
\* When the name has been taken meanwhile another list is looked for; when the list has gone
\* the save of a featured course is tried once more.
DreamCommits(j) ==
  LET w == saver[j]   new == w.list = OldLists + j   l == DreamList(j)
      taken == \E k \in AllLists : lists[k].name = "Want to play" IN
  /\ w.op \in {"dream", "featured"}
  /\ IF (new /\ ~taken) \/ (~new /\ IsList(w.list)) THEN PutDream(j, w.list, w.seen, w.vis, w.flag)
     ELSE IF new \/ w.op = "featured"
     THEN PutDream(j, l, Matching(l, w.course), IF IsList(l) THEN lists[l].vis ELSE "private", FirstList)
     ELSE Fails(j)

-----------------------------------------------------------------------------
SavedReads(j) ==
  \/ CreateSavedList(j) \/ UpdateSavedList(j) \/ DeleteSavedList(j)
  \/ SaveCourse(j) \/ RemoveSavedCourse(j) \/ Dream(j)
SavedWrites(j) ==
  \/ CreateCommits(j) \/ UpdateCommits(j) \/ ClearActivity(j) \/ DeleteCommits(j)
  \/ SaveCommits(j) \/ RemoveCommits(j) \/ DreamCommits(j)
SavedNext == \E j \in Savers : SavedReads(j) \/ SavedWrites(j)
SavedSpec == SavedInit /\ [][SavedNext]_savedVars

-----------------------------------------------------------------------------
(* Properties.                                                             *)

\* Every variable stays in its type, and every saved course is in a list.
SavedTypeOK ==
  /\ lists \in [ListIds -> ListRow]
  /\ saves \subseteq AllLists \X Courses
  /\ activity \subseteq [save : ListIds \X Courses, vis : ListVisibilities]
  /\ saver \in [Savers -> Saver]
  /\ overlapped \in BOOLEAN /\ chosen \in BOOLEAN

\* A golfer who has lists has exactly one default, through creating, choosing, seeding and
\* deleting lists in any order, one request after the other.
OneDefault == ~overlapped /\ UnderWay = {} /\ AllLists # {} => Cardinality(Defaults) = 1

\* Choosing a default list repairs whatever overlapping requests have left, none or several.
ChoosingRepairs == chosen /\ UnderWay = {} => Cardinality(Defaults) = 1

\* Requests one after the other keep the default list, and a choice restores it.
DefaultIsKept == OneDefault /\ ChoosingRepairs

\* What the feed tells about saved courses is about courses that are saved, and is no more
\* visible than their list, one request after the other.
ActivityFollowsLists ==
  ~overlapped => \A e \in activity : e.save \in saves /\ e.vis = lists[e.save[1]].vis

\* The same in every interleaving of two requests.
DefaultKept == UnderWay = {} /\ AllLists # {} => Cardinality(Defaults) = 1
ActivityNeverLeaks == UnderWay = {} => \A e \in activity : e.save \in saves /\ e.vis = lists[e.save[1]].vis
=============================================================================
