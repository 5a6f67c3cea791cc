---------------------------- MODULE AdminConsole ----------------------------
(***************************************************************************)
(* One browser tab of the web admin and the API it calls.  A page is mounted *)
(* with state of its own, its handlers await answers that arrive late, in    *)
(* any order, for a page that was left or for a form that was closed, or not *)
(* at all; a call may have been carried out although its answer is lost.     *)
(* The single-threaded handler between two awaits is one step.               *)
(*                                                                          *)
(* The pages are left by a link, the browser's history or by logging out; an *)
(* open dialog covers its page.  What is typed is a choice: a row of user_tu *)
(* or reminder_schedule stands for the fields that belong to it.             *)
(***************************************************************************)
EXTENDS Reporting

CONSTANTS
  Reminders,      \* rows of reminder_schedule
  Campaigns,      \* campaigns of the histories
  ConsoleMonths,  \* months that are looked at
  None, NewRow,   \* no row; the row a form is about to create
  Waiting, Failed,
  MaxCalls,       \* bound: calls the tab starts by itself
  MaxMounts       \* bound: pages mounted

VARIABLES
  page,    \* the mounted page: its name, the parameter of its route, its instance
  view,    \* the refs of that instance
  calls,   \* requests of all instances, until their answer has been handled
  made,    \* requests it started by itself
  stored,  \* the selection in sessionStorage
  rows     \* whose fields and whose account each row of the server holds

consoleVars == <<page, view, calls, made, stored, rows>>
vars == <<now, media, userStatus, changes, page, view, calls, made, stored, rows>>
----------------------------------------------------------------------------
(* Pages, forms and calls *)

Row == Users \cup Reminders

Content == [of : Row \cup {NewRow}, account : Row \cup {NewRow}]

\* user_tu and reminder_schedule are two tables, and no row is not a row.
ASSUME ConsoleAssumption ==
  /\ None \notin Row \cup Content /\ Users \cap Reminders = {}
  /\ MaxCalls \in Nat /\ MaxMounts \in Nat \ {0}

Blank == [of |-> NewRow, account |-> NewRow]
FieldsOf(k) == [of |-> k, account |-> k]

Routes ==
  [name : {"dashboard", "users", "schedules", "backfill", "messages", "histories"}, arg : {None}]
    \cup [name : {"month"}, arg : [month : ConsoleMonths]]
    \cup [name : {"user"}, arg : Users]
    \cup [name : {"history"}, arg : Campaigns]

PageOf(route, mount) == [name |-> route.name, arg |-> route.arg, mount |-> mount]
LoginPage(mount) == [name |-> "login", arg |-> None, mount |-> mount]
Loads(p) == p.name \notin {"login", "backfill"}

\* What a page's setup leaves, its onMounted included.
Mounted(p) ==
  [shown |-> {}, selected |-> {}, loading |-> Loads(p), saving |-> FALSE, resolving |-> FALSE,
   importing |-> FALSE, running |-> None, open |-> FALSE, editing |-> None, form |-> Blank]

NewCall(n, p, kind, arg) ==
  [n |-> n, page |-> p.name, mount |-> p.mount, kind |-> kind, arg |-> arg, got |-> Waiting]

\* A handler starts a request and is suspended.
Request(p, kind, arg) ==
  /\ made < MaxCalls
  /\ made' = made + 1
  /\ calls' = calls \cup {NewCall(made + 1, p, kind, arg)}

Mount(p) ==
  /\ page' = p /\ view' = Mounted(p)
  /\ IF Loads(p) THEN Request(p, "load", p.arg) ELSE UNCHANGED <<calls, made>>

Answered(name, kind) == {c \in calls : c.page = name /\ c.kind = kind /\ c.got # Waiting}
Alive(c) == c.mount = page.mount

\* The suspended handler goes on with its answer and leaves v.  An instance that is
\* gone changes only its own refs.
Resume(c, v) ==
  /\ calls' = calls \ {c}
  /\ view' = IF Alive(c) THEN v ELSE view
  /\ UNCHANGED <<page, made>>

\* It goes on with another request.
Continue(c, v, kind, arg) ==
  /\ calls' = (calls \ {c}) \cup {NewCall(c.n, [name |-> c.page, mount |-> c.mount], kind, arg)}
  /\ view' = IF Alive(c) THEN v ELSE view
  /\ UNCHANGED <<page, made>>

Do(v) == view' = v /\ UNCHANGED <<page, calls, made, stored>>
----------------------------------------------------------------------------
(* The API *)

listTargets(status) ==
  {u \in Users : userStatus[u] = status \/ (status = "all" /\ userStatus[u] # "absent")}

listSchedules == {k \in Reminders : rows[k] # None}

\* What the answer to a load may list.
Listings(c) ==
  CASE c.page = "month" -> {DOMAIN monthUsers(c.arg.month)}
    [] c.page = "messages" -> {listTargets("active")}
    [] c.page = "users" -> {listTargets(s) : s \in {"active", "inactive", "all"}}
    [] c.page = "schedules" -> {listSchedules}
    [] c.page = "histories" -> {Campaigns}
    [] c.page = "dashboard" -> {{}}
    [] OTHER -> {{c.arg}}

Respond(c, got) == calls' = (calls \ {c}) \cup {[c EXCEPT !.got = got]}
Keep == UNCHANGED <<rows, userStatus>>

ServeLoad(c) ==
  /\ c.kind \in {"load", "afterSave", "afterRun", "afterImport"}
  /\ \E ids \in Listings(c) : Respond(c, ids)
  /\ Keep

Created(k, content) ==
  [of |-> IF content.of = NewRow THEN k ELSE content.of,
   account |-> IF content.account = NewRow THEN k ELSE content.account]

\* createTarget, updateTarget, createSchedule and updateSchedule: what the answer
\* says is lost, or not.
ServeSave(c) ==
  /\ c.kind = "save"
  /\ \E k \in IF c.page = "users" THEN Users ELSE Reminders :
       /\ IF c.arg.editing = None
          THEN rows[k] = None /\ rows' = [rows EXCEPT ![k] = Created(k, c.arg.form)]
          ELSE rows[k] # None /\ k = c.arg.editing /\ rows' = [rows EXCEPT ![k] = c.arg.form]
       /\ IF k \in Users
          THEN \E s \in {"active", "inactive"} : userStatus' = [userStatus EXCEPT ![k] = s]
          ELSE UNCHANGED userStatus
       /\ \E got \in {k, Failed} : Respond(c, got)

ServeImport(c) ==
  /\ c.kind = "import"
  /\ rows' = [k \in Row |-> IF k \in c.arg.rows THEN FieldsOf(k) ELSE rows[k]]
  /\ userStatus' = [u \in Users |-> IF u \in c.arg.rows THEN "active" ELSE userStatus[u]]
  /\ \E got \in {None, Failed} : Respond(c, got)

\* resolveTargetUsername answers for the name it was asked for.
ServeResolve(c) == c.kind = "resolve" /\ Respond(c, c.arg) /\ Keep

\* The campaign, the run or the backfill is what Reminders and HistoryCursor begin with.
ServeWork(c) == c.kind \in {"run", "submit"} /\ Respond(c, c.arg) /\ Keep

\* The account is the configured one: the token is, too.
ServeLogin(c) == c.kind = "login" /\ Respond(c, None) /\ Keep

\* A validation, a missing row, an expired session, a failing query or the network.
Refuse(c) == Respond(c, Failed) /\ Keep

Serve ==
  \E c \in {x \in calls : x.got = Waiting} :
    /\ ServeLoad(c) \/ ServeSave(c) \/ ServeImport(c) \/ ServeResolve(c)
       \/ ServeWork(c) \/ ServeLogin(c) \/ Refuse(c)
    /\ UNCHANGED <<now, media, changes, page, view, made, stored>>

\* Another administrator switches a user on or off.
SwitchedElsewhere ==
  /\ made < MaxCalls /\ made' = made + 1
  /\ \E u \in listTargets("all") : \E s \in {"active", "inactive"} :
       userStatus' = [userStatus EXCEPT ![u] = s]
  /\ UNCHANGED <<now, media, changes, page, view, calls, stored, rows>>
----------------------------------------------------------------------------
(* Login, logout and routes *)

login ==
  /\ page.name = "login" /\ ~view.saving
  /\ Request(page, "login", None)
  /\ view' = [view EXCEPT !.saving = TRUE]
  /\ UNCHANGED <<page, stored>>

LoggedIn ==
  \E c \in Answered("login", "login") :
    /\ IF c.got = Failed
       THEN Resume(c, [view EXCEPT !.saving = FALSE])
       ELSE LET dashboard == [name |-> "dashboard", arg |-> None, mount |-> page.mount + 1]
            IN  /\ page' = dashboard /\ view' = Mounted(dashboard)
                /\ calls' = (calls \ {c}) \cup {NewCall(c.n, dashboard, "load", None)}
                /\ UNCHANGED made
    /\ UNCHANGED stored

logout ==
  /\ page.name # "login" /\ ~view.open
  /\ page.mount < MaxMounts
  /\ Mount(LoginPage(page.mount + 1))
  /\ UNCHANGED stored

\* A link, or the browser's history, which a dialog does not stop.
Visit ==
  /\ page.name # "login" /\ page.mount < MaxMounts
  /\ \E route \in Routes : route.name # page.name /\ Mount(PageOf(route, page.mount + 1))
  /\ UNCHANGED stored

\* The same page for another parameter is not mounted again: its watch leaves v.
Rewatch(name, v) ==
  /\ page.name = name
  /\ \E route \in Routes :
       /\ route.name = name /\ route.arg # page.arg
       /\ page' = [page EXCEPT !.arg = route.arg]
       /\ Request(page, "load", route.arg)
  /\ view' = [v EXCEPT !.loading = TRUE]
  /\ UNCHANGED stored

watchMonth == Rewatch("month", [view EXCEPT !.selected = {}])
watchUser == Rewatch("user", [view EXCEPT !.shown = {}, !.open = FALSE])
watchHistory == Rewatch("history", [view EXCEPT !.shown = {}])

\* Loading again, on the same page.
Again ==
  /\ ~view.open
  /\ Request(page, "load", page.arg)
  /\ view' = [view EXCEPT !.loading = TRUE]
  /\ UNCHANGED <<page, stored>>

reload == Loads(page) /\ page.name # "messages" /\ ~view.loading /\ Again

\* The month's sorting and the users' filter are not disabled while an answer is
\* awaited.
changeSort == page.name = "month" /\ view.shown # {} /\ Again
changeFilter == page.name = "users" /\ Again
----------------------------------------------------------------------------
(* Dashboard, user, histories and one campaign: the answer replaces what is shown *)

Shown(c) == IF c.got = Failed THEN view.shown ELSE c.got

Loaded(name) ==
  \E c \in Answered(name, "load") :
    /\ Resume(c, [view EXCEPT !.shown = Shown(c), !.loading = FALSE])
    /\ UNCHANGED stored

loadDashboard == Loaded("dashboard")
loadUserDetail == Loaded("user")
loadHistories == Loaded("histories")
loadHistoryDetail == Loaded("history")
loadUsers == Loaded("users")
loadSchedules == Loaded("schedules")

\* A month: the selection is cut down to what the answer lists.
\* Mutant: the selection outlives the rows.
MonthKept(c) ==
  [view EXCEPT !.shown = Shown(c), !.loading = FALSE]
MonthShown(c) ==
  [view EXCEPT !.shown = Shown(c), !.loading = FALSE,
               !.selected = IF c.got = Failed THEN @ ELSE @ \cap c.got]

loadMonth ==
  \E c \in Answered("month", "load") : Resume(c, MonthShown(c)) /\ UNCHANGED stored

Select(ids) == ids # view.selected /\ Do([view EXCEPT !.selected = ids])

\* Ticked, all of them, none.
selectUsers == page.name = "month" /\ \E ids \in SUBSET view.shown : Select(ids)

storeDashboardSelectedTargetIds(ids) == stored' = ids

\* The selection is handed to the messages page through sessionStorage.
sendSelectedToMessages ==
  /\ page.name = "month" /\ view.selected # {} /\ page.mount < MaxMounts
  /\ storeDashboardSelectedTargetIds(view.selected)
  /\ Mount(PageOf([name |-> "messages", arg |-> None], page.mount + 1))
----------------------------------------------------------------------------
(* Messages *)

hydrateDashboardSelection(ids) == stored \cap ids

\* The answer of an instance that was left empties sessionStorage just the same.
loadTargets ==
  \E c \in Answered("messages", "load") :
    IF c.got = Failed
    THEN Resume(c, [view EXCEPT !.loading = FALSE]) /\ UNCHANGED stored
    ELSE /\ Resume(c, [view EXCEPT !.shown = c.got, !.loading = FALSE,
                                   !.selected = @ \cup hydrateDashboardSelection(c.got)])
         /\ stored' = {}

\* Ticked, found by a name that was pasted, all that a filter leaves, none.
selectTargets == page.name = "messages" /\ \E ids \in SUBSET view.shown : Select(ids)

submit ==
  /\ page.name = "messages" /\ ~view.saving
  /\ Request(page, "submit", None)
  /\ view' = [view EXCEPT !.saving = TRUE]
  /\ UNCHANGED <<page, stored>>

SubmitAnswered(name) ==
  \E c \in Answered(name, "submit") :
    Resume(c, [view EXCEPT !.saving = FALSE]) /\ UNCHANGED stored

\* The selection and the text stay as they are.
submitAnswered == SubmitAnswered("messages")
----------------------------------------------------------------------------
(* Backfills: the page of its own, and the dialog of a user's day *)

openBackfillModal ==
  /\ page.name = "user" /\ ~view.open
  /\ \E u \in view.shown : Do([view EXCEPT !.open = TRUE, !.form = FieldsOf(u)])

closeBackfillModal ==
  page.name = "user" /\ view.open /\ ~view.saving /\ Do([view EXCEPT !.open = FALSE])

Backfill ==
  /\ ~view.saving
  /\ Request(page, "submit", None)
  /\ view' = [view EXCEPT !.saving = TRUE]
  /\ UNCHANGED <<page, stored>>

submitBackfill == page.name = "backfill" /\ Backfill
submitUserBackfill == page.name = "user" /\ view.open /\ Backfill
backfillAnswered == SubmitAnswered("backfill")
userBackfillAnswered == SubmitAnswered("user")
----------------------------------------------------------------------------
(* Schedules and users: the form *)

\* Mutant: the form is filled, the row it updates is not set.
EditKeepsRow(v, k) == [v EXCEPT !.open = TRUE, !.form = FieldsOf(k)]
editRow(v, k) == [v EXCEPT !.open = TRUE, !.editing = k, !.form = FieldsOf(k)]
startCreate(v) == [v EXCEPT !.open = TRUE, !.editing = None, !.form = Blank]

OpenForm(name) ==
  /\ page.name = name /\ ~view.open
  /\ Do(startCreate(view)) \/ \E k \in view.shown : Do(editRow(view, k))

openSchedule == OpenForm("schedules")
openUser == OpenForm("users")

\* A save does not keep the form open; resolving a username does.
closeSchedule == page.name = "schedules" /\ view.open /\ Do([view EXCEPT !.open = FALSE])
closeUser ==
  page.name = "users" /\ view.open /\ ~view.resolving /\ Do([view EXCEPT !.open = FALSE])

Save(name) ==
  /\ page.name = name /\ view.open /\ ~view.saving /\ ~view.resolving
  /\ Request(page, "save", [editing |-> view.editing, form |-> view.form])
  /\ view' = [view EXCEPT !.saving = TRUE]
  /\ UNCHANGED <<page, stored>>

saveSchedule == Save("schedules")
saveUser == Save("users")

\* After the answer the list is loaded again, before the form is dealt with.
SaveAnswered(name) ==
  \E c \in Answered(name, "save") :
    /\ IF c.got = Failed THEN Resume(c, [view EXCEPT !.saving = FALSE])
       ELSE Continue(c, [view EXCEPT !.loading = TRUE], "afterSave", c.got)
    /\ UNCHANGED stored

\* The load that a handler awaits does not throw: the handler goes on.
Reloaded(name, kind, After(_, _)) ==
  \E c \in Answered(name, kind) :
    /\ Resume(c, After([view EXCEPT !.shown = Shown(c), !.loading = FALSE], c.arg))
    /\ UNCHANGED stored

\* The form is closed, whichever it has become.
ScheduleSaved(v, k) == [v EXCEPT !.saving = FALSE, !.editing = k, !.open = FALSE]
UserSaved(v, k) == [editRow(v, k) EXCEPT !.saving = FALSE, !.open = FALSE]

scheduleSaved == SaveAnswered("schedules") \/ Reloaded("schedules", "afterSave", ScheduleSaved)
userSaved == SaveAnswered("users") \/ Reloaded("users", "afterSave", UserSaved)
----------------------------------------------------------------------------
(* Schedules: a run by hand *)

runNow ==
  /\ page.name = "schedules" /\ ~view.open
  /\ \E k \in view.shown :
       k # view.running /\ Request(page, "run", k) /\ view' = [view EXCEPT !.running = k]
  /\ UNCHANGED <<page, stored>>

RunDone(v, k) == [v EXCEPT !.running = None]

runAnswered ==
  \/ \E c \in Answered("schedules", "run") :
       /\ IF c.got = Failed THEN Resume(c, RunDone(view, None))
          ELSE Continue(c, [view EXCEPT !.loading = TRUE], "afterRun", c.got)
       /\ UNCHANGED stored
  \/ Reloaded("schedules", "afterRun", RunDone)
----------------------------------------------------------------------------
(* Users: resolving a username, importing a file *)

\* Mutant: a save in flight does not stop it.
ResolveWhileSaving(v) == v.open /\ ~v.resolving
MayResolve(v) == v.open /\ ~v.saving /\ ~v.resolving

resolveUsername ==
  /\ page.name = "users" /\ MayResolve(view)
  /\ Request(page, "resolve", view.form.of)
  /\ view' = [view EXCEPT !.resolving = TRUE]
  /\ UNCHANGED <<page, stored>>

\* Mutants: a failure leaves the form waiting; a failure is taken for an answer.
ResolvedOrStuck(v, got) ==
  IF got = Failed THEN v ELSE [v EXCEPT !.resolving = FALSE, !.form.account = got]
ResolvedAnyway(v, got) == [v EXCEPT !.resolving = FALSE, !.form.account = got]
Resolved(v, got) ==
  IF got = Failed THEN [v EXCEPT !.resolving = FALSE]
  ELSE [v EXCEPT !.resolving = FALSE, !.form.account = got]

usernameResolved ==
  \E c \in Answered("users", "resolve") : Resume(c, Resolved(view, c.got)) /\ UNCHANGED stored

\* The rows of a file: those without a path are skipped; one that is malformed, or
\* named twice, refuses the file.
parseImportCsv(file) ==
  LET used == {i \in DOMAIN file : file[i].is = "used"}
  IN  IF \/ \E i \in DOMAIN file : file[i].is = "malformed"
         \/ \E i, j \in used : i # j /\ file[i].row = file[j].row
      THEN Failed
      ELSE {file[i].row : i \in used}

\* Bound: two lines.
Files == [1..2 -> [row : Users, is : {"used", "without path", "malformed"}]]

importCsv ==
  /\ page.name = "users" /\ ~view.open /\ ~view.loading /\ ~view.importing
  /\ \E targets \in {parseImportCsv(file) : file \in Files} \ {Failed, {}} :
       Request(page, "import", [rows |-> targets])
  /\ view' = [view EXCEPT !.importing = TRUE]
  /\ UNCHANGED <<page, stored>>

ImportDone(v, k) == [v EXCEPT !.importing = FALSE]

importAnswered ==
  \/ \E c \in Answered("users", "import") :
       /\ IF c.got = Failed THEN Resume(c, ImportDone(view, None))
          ELSE Continue(c, [view EXCEPT !.loading = TRUE], "afterImport", None)
       /\ UNCHANGED stored
  \/ Reloaded("users", "afterImport", ImportDone)
----------------------------------------------------------------------------
Act ==
  \/ login \/ logout \/ Visit \/ watchMonth \/ watchUser \/ watchHistory
  \/ reload \/ changeSort \/ changeFilter
  \/ selectUsers \/ sendSelectedToMessages \/ selectTargets \/ submit
  \/ openBackfillModal \/ closeBackfillModal \/ submitBackfill \/ submitUserBackfill
  \/ openSchedule \/ closeSchedule \/ saveSchedule \/ runNow
  \/ openUser \/ closeUser \/ saveUser \/ resolveUsername \/ importCsv

Handle ==
  \/ LoggedIn
  \/ loadDashboard \/ loadMonth \/ loadUserDetail \/ loadHistories \/ loadHistoryDetail
  \/ loadTargets \/ loadUsers \/ loadSchedules
  \/ submitAnswered \/ backfillAnswered \/ userBackfillAnswered
  \/ scheduleSaved \/ runAnswered \/ userSaved \/ usernameResolved \/ importAnswered

Tab == (Act \/ Handle) /\ UNCHANGED <<reportVars, rows>>

Init ==
  /\ ReportingInit
  /\ \/ page = LoginPage(1)
     \/ \E route \in Routes : page = PageOf(route, 1)
  /\ view = Mounted(page)
  /\ calls = IF Loads(page)
             THEN {NewCall(1, page, "load", page.arg)} ELSE {}
  /\ made \in Cardinality(calls)..MaxCalls
  /\ stored = {}
  /\ \E present \in SUBSET Reminders :
       rows = [k \in Row |-> IF k \in present \/ (k \in Users /\ userStatus[k] # "absent")
                             THEN FieldsOf(k) ELSE None]

Next ==
  \/ TablesStep /\ UNCHANGED consoleVars
  \/ Serve \/ SwitchedElsewhere \/ Tab

\* Every request is answered or fails in the end, and the browser runs the handler
\* of an answer that has come.
Fairness == WF_vars(Serve) /\ WF_vars(Handle /\ UNCHANGED <<reportVars, rows>>)

Spec == Init /\ [][Next]_vars /\ Fairness
----------------------------------------------------------------------------
(* Properties *)

TypeOK ==
  /\ userStatus \in [Users -> UserStatuses]
  /\ page.mount \in 1..(MaxMounts + 1)
  /\ view.shown \subseteq Row \cup Campaigns
  /\ view.selected \subseteq Users /\ stored \subseteq Users
  /\ {view.loading, view.saving, view.resolving, view.importing, view.open} \subseteq BOOLEAN
  /\ view.editing \in Row \cup {None} /\ view.form \in Content
  /\ view.running \in Reminders \cup {None}
  /\ rows \in [Row -> Content \cup {None}]
  /\ \A u \in Users : rows[u] = None <=> userStatus[u] = "absent"
  /\ \A c, d \in calls : c.n = d.n => c = d

\* What is selected is listed on the page, whatever answers have come since and
\* whatever was handed over: no one is written to whom the page does not show
\* (MonthDetail's loadDetail, MessagesPage's hydrateDashboardSelection).
SelectionShown == view.selected \subseteq view.shown

\* Every row of the server holds its own fields: a save never writes what was typed
\* for one row into another, although the form can be closed and opened on another
\* row while the answer to the first is awaited (SchedulesPage's saveSchedule,
\* UsersPage's saveUser).
RowsHoldTheirOwn == \A k \in Row : rows[k] # None => rows[k].of = k

\* The account that a username was resolved to is put into the form that asked, and
\* saved with its row.
ResolvedIntoItsForm ==
  /\ view.form.account = view.form.of
  /\ \A k \in Row : rows[k] # None => rows[k].account = rows[k].of

\* Whatever is lost or refused, no page waits for ever: its buttons come back.
Busy ==
  view.loading \/ view.saving \/ view.resolving \/ view.importing \/ view.running # None
NotStuck == Busy ~> ~Busy
=============================================================================
