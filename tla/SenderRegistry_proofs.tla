------------------------ MODULE SenderRegistry_proofs ------------------------
(***************************************************************************)
(* For any tables, edits, files, accounts and number of live messages: the   *)
(* pairs of user_tu stay unique, the maps of a run say what its copy of the  *)
(* rows says, and taking a message leaves every account registered.          *)
(*                                                                           *)
(* The invariant says what a copy is still good for: the row it was taken     *)
(* from exists (HandsHold, RunHolds), and a copy that a message was matched   *)
(* with has the sender's id or the username the message came with.           *)
(***************************************************************************)
EXTENDS SenderRegistry, FiniteSetTheorems, TLAPS

HandSet == [pc : {"idle", "byId", "byName", "found"}, msg : Nat,
            name : Names \cup {None}, row : Ids \cup {None}, copy : UserTu \cup {None}]
IdIndexes == [Forms \X Senders -> Ids \cup {None}]
NameIndexes == [Forms \X Names -> Ids \cup {None}]
Fetches == Seq(Names \cup {None})
RunSet == [pc : {"idle", "started", "reading"}, users : Tables, byId : IdIndexes, byName : NameIndexes,
           from : Fetches, next : Nat]

RowsShape == rows \in Tables /\ Unique(rows)
TelegramShape ==
  /\ names \in [Senders -> Names \cup {None}]
  /\ \A s, t \in Senders : s # t /\ names[s] # None => names[s] # names[t]
  /\ chat \in Seq(Senders) /\ Len(chat) <= MaxPosts /\ renames \in 0..MaxRenames
AdminShape ==
  /\ \A i \in DOMAIN import : import[i] \in Ids \X UserTu
  /\ edits \in 0..MaxEdits /\ accepted \subseteq 1..Len(chat)

\* What a live message was matched with in a state of the table, the chat and the
\* accounts: a row, and a copy with its sender's id or with the username it came with.
HandHolds(g, table, posts, account, left) ==
  /\ g.pc = "idle" => g.msg = 0
  /\ g.pc # "idle" => /\ g.msg \in 1..Len(posts)
                      /\ left = MaxRenames => g.name \in {account[posts[g.msg]], None}
  /\ g.pc = "found" =>
       /\ g.row \in Ids /\ table[g.row] # None /\ g.copy \in UserTu
       /\ g.copy.uid = posts[g.msg] \/ (g.name # None /\ g.copy.name = g.name)
HandsHold == /\ hand \in [Handlers -> HandSet]
             /\ \A h \in Handlers : HandHolds(hand[h], rows, chat, names, renames)

RunHolds ==
  /\ run \in RunSet
  /\ \A r \in Ids : run.users[r] # None => rows[r] # None
  /\ run.next \in 1..Len(run.from) + 1 /\ Len(run.from) <= Len(chat)
  /\ renames = MaxRenames => \A i \in 1..Len(run.from) : run.from[i] \in SenderName(chat[i])

Inv == RowsShape /\ TelegramShape /\ AdminShape /\ HandsHold /\ RunHolds /\ IndexTrue

\* No row is ever removed, and messages stay where they are.
Grows ==
  /\ \A r \in Ids : rows[r] # None => rows'[r] # None
  /\ Len(chat) <= Len(chat') /\ \A i \in 1..Len(chat) : chat'[i] = chat[i]
  /\ renames' = MaxRenames => renames = MaxRenames /\ names' = names

LEMMA HandKept ==
  ASSUME Inv, Grows, TelegramShape', NEW g, HandHolds(g, rows, chat, names, renames)
  PROVE  HandHolds(g, rows', chat', names', renames')
<1>1. Len(chat) \in Nat /\ Len(chat') \in Nat
  BY DEF Inv, TelegramShape
<1>2. g.pc # "idle" => chat'[g.msg] = chat[g.msg] /\ g.msg \in 1..Len(chat')
  BY <1>1 DEF Grows, HandHolds
<1> QED BY <1>2 DEF Grows, HandHolds

LEMMA HandsKept == ASSUME Inv, Grows, TelegramShape', UNCHANGED hand PROVE HandsHold'
BY HandKept DEF Inv, HandsHold

LEMMA RunKept == ASSUME Inv, Grows, TelegramShape', UNCHANGED run PROVE RunHolds' /\ IndexTrue'
<1>1. IndexTrue'
  BY DEF Inv, IndexTrue
<1>2. Len(chat) \in Nat /\ Len(chat') \in Nat /\ Len(run.from) \in Nat
  BY DEF Inv, TelegramShape, RunHolds, RunSet, Fetches
<1>3. ASSUME renames' = MaxRenames, NEW i \in 1..Len(run.from)
      PROVE  run.from[i] \in SenderName(chat[i])'
  BY <1>2, <1>3 DEF Inv, RunHolds, Grows, SenderName
<1>4. Len(run.from) <= Len(chat')
  BY <1>2 DEF Inv, RunHolds, Grows
<1> QED BY <1>1, <1>3, <1>4 DEF Inv, RunHolds, Grows

LEMMA AdminKept == ASSUME Inv, Grows, TelegramShape', UNCHANGED <<import, edits, accepted>> PROVE AdminShape'
<1>1. Len(chat) \in Nat /\ Len(chat') \in Nat
  BY DEF Inv, TelegramShape
<1> QED BY <1>1 DEF Inv, AdminShape, Grows
----------------------------------------------------------------------------
(* Telegram *)

LEMMA PostInv == ASSUME Inv, NEW s \in Senders, Post(s) PROVE Inv'
<1>1. TelegramShape'
  BY BoundsAssumption DEF Post, Inv, TelegramShape
<1>2. Grows
  BY DEF Post, Grows, Inv, TelegramShape
<1> QED BY <1>1, <1>2, HandsKept, RunKept, AdminKept DEF Post, Inv, RowsShape

LEMMA RenameInv == ASSUME Inv, NEW s \in Senders, NEW n \in Names \cup {None}, Rename(s, n) PROVE Inv'
<1>1. TelegramShape'
  BY BoundsAssumption DEF Rename, Inv, TelegramShape
<1>2. Grows
  BY BoundsAssumption DEF Rename, Grows, Inv, TelegramShape
<1> QED BY <1>1, <1>2, HandsKept, RunKept, AdminKept DEF Rename, Inv, RowsShape
----------------------------------------------------------------------------
(* Live messages *)

\* What a message fills in is a user again.
LEMMA PatchType ==
  ASSUME NEW row \in UserTu, NEW copy, NEW s \in Senders, NEW n \in Names \cup {None}
  PROVE  /\ Patch(row, copy, s, n) \in UserTu
         /\ Patch(row, copy, s, n).uid = IF copy.uid # s THEN s ELSE row.uid
         /\ Patch(row, copy, s, n).name = IF n # None /\ copy.name # n THEN n ELSE row.name
         /\ Patch(row, copy, s, n).active = row.active
<1> DEFINE uid == IF copy.uid # s THEN s ELSE row.uid
           name == IF n # None /\ copy.name # n THEN n ELSE row.name
           form == IF copy.form # "canonical" THEN "canonical" ELSE row.form
           p == Patch(row, copy, s, n)
<1>1. p = [row EXCEPT !.uid = uid, !.name = name, !.form = form]
  BY DEF Patch
<1>2. row = [uid |-> row.uid, form |-> row.form, name |-> row.name, active |-> row.active]
  BY DEF UserTu
<1>3. uid \in Senders \cup {None} /\ name \in Names \cup {None} /\ form \in Forms /\ row.active \in BOOLEAN
  BY DEF UserTu, Forms
<1> HIDE DEF uid, name, form
<1>4. p = [uid |-> uid, form |-> form, name |-> name, active |-> row.active]
  BY <1>1, <1>2
<1>5. p \in UserTu /\ p.uid = uid /\ p.name = name /\ p.active = row.active
  BY <1>3, <1>4 DEF UserTu
<1> QED BY <1>5 DEF uid, name

LEMMA PatchedType ==
  ASSUME Inv, NEW r \in Ids, rows[r] # None, NEW copy, NEW s \in Senders, NEW n \in Names \cup {None}
  PROVE  /\ Patched(r, copy, s, n) \in Tables
         /\ \A q \in Ids : rows[q] # None => Patched(r, copy, s, n)[q] # None
<1>1. rows[r] \in UserTu
  BY DEF Inv, RowsShape, Tables
<1> DEFINE row == rows[r]
<1>2. row \in UserTu
  BY <1>1
<1> HIDE DEF row
<1>3. Patch(row, copy, s, n) \in UserTu
  BY <1>2, PatchType
<1>4. Patch(rows[r], copy, s, n) \in UserTu /\ Patch(rows[r], copy, s, n) # None
  BY <1>3, NoneAssumption DEF row
<1> QED BY <1>4 DEF Patched, Inv, RowsShape, Tables

\* A step of one live message leaves the others, and what a run has, as they are.
LEMMA HandInv ==
  ASSUME Inv, NEW h \in Handlers, NEW g \in HandSet, hand' = [hand EXCEPT ![h] = g],
         HandHolds(g, rows', chat, names, renames),
         RowsShape', Grows, accepted' \subseteq 1..Len(chat),
         UNCHANGED <<run, import, edits, telegram>>
  PROVE  Inv'
<1>1. TelegramShape' /\ UNCHANGED <<chat, names, renames>>
  BY DEF Inv, TelegramShape, telegram
<1>2. HandsHold'
  <2>1. hand' \in [Handlers -> HandSet] /\ hand'[h] = g /\ \A k \in Handlers \ {h} : hand'[k] = hand[k]
    BY DEF Inv, HandsHold
  <2>2. \A k \in Handlers \ {h} : HandHolds(hand[k], rows', chat', names', renames')
    BY <1>1, HandKept DEF Inv, HandsHold
  <2> QED BY <1>1, <2>1, <2>2 DEF HandsHold
<1>3. AdminShape'
  BY <1>1 DEF Inv, AdminShape
<1> QED BY <1>1, <1>2, <1>3, RunKept DEF Inv

With(g, m, n) == [g EXCEPT !.pc = "byId", !.msg = m, !.name = n]
Matched(g, r, u) == [g EXCEPT !.pc = "found", !.row = r, !.copy = u]

LEMMA HandEdits ==
  ASSUME NEW g \in HandSet
  PROVE  /\ \A m \in Nat, n \in Names \cup {None} :
              /\ With(g, m, n) \in HandSet /\ With(g, m, n).pc = "byId"
              /\ With(g, m, n).msg = m /\ With(g, m, n).name = n
         /\ \A r \in Ids, u \in UserTu :
              /\ Matched(g, r, u) \in HandSet /\ Matched(g, r, u).pc = "found"
              /\ Matched(g, r, u).row = r /\ Matched(g, r, u).copy = u
              /\ Matched(g, r, u).msg = g.msg /\ Matched(g, r, u).name = g.name
BY DEF HandSet, With, Matched

LEMMA HandSteps ==
  ASSUME Inv, NEW h \in Handlers, HandTake(h) \/ HandById(h) \/ HandByName(h) \/ HandPatch(h)
  PROVE  Inv'
<1> DEFINE old == hand[h]
<1>0. old \in HandSet /\ HandHolds(old, rows, chat, names, renames) /\ IdleHand \in HandSet
  BY NoneAssumption DEF Inv, HandsHold, IdleHand, HandSet
<1>idle. \A table : HandHolds(IdleHand, table, chat, names, renames)
  BY DEF HandHolds, IdleHand
<1>same. ASSUME UNCHANGED <<rows, chat, names, renames>> PROVE RowsShape' /\ Grows
  BY <1>same DEF Inv, RowsShape, Grows
<1>1. ASSUME NEW g \in HandSet, hand' = [hand EXCEPT ![h] = g],
             HandHolds(g, rows, chat, names, renames),
             UNCHANGED <<rows, accepted, run, import, edits, telegram>>
      PROVE  Inv'
  BY <1>1, <1>same, HandInv DEF Inv, AdminShape, telegram
<1>2. CASE HandTake(h)
  <2>1. PICK i \in 1..Len(chat) : \E n \in SenderName(chat[i]) :
               hand' = [hand EXCEPT ![h] = [IdleHand EXCEPT !.pc = "byId", !.msg = i, !.name = n]]
    BY <1>2 DEF HandTake
  <2>2. PICK n \in SenderName(chat[i]) :
               hand' = [hand EXCEPT ![h] = [IdleHand EXCEPT !.pc = "byId", !.msg = i, !.name = n]]
    BY <2>1
  <2> DEFINE g == With(IdleHand, i, n)
  <2>4. n \in Names \cup {None} /\ n \in {names[chat[i]], None} /\ i \in Nat
    BY DEF SenderName, Inv, TelegramShape
  <2>3. g \in HandSet /\ g.pc = "byId" /\ g.msg = i /\ g.name = n
    BY <1>0, <2>4, HandEdits
  <2>5. HandHolds(g, rows, chat, names, renames)
    BY <2>3, <2>4 DEF HandHolds
  <2>6. hand' = [hand EXCEPT ![h] = g]
    BY <2>2 DEF With
  <2> QED BY <1>1, <1>2, <2>3, <2>5, <2>6 DEF HandTake
<1>3. ASSUME NEW r \in Active(rows), Found(h, r),
             old.pc # "idle", rows[r].uid = chat[old.msg] \/ (old.name # None /\ rows[r].name = old.name),
             UNCHANGED <<rows, accepted, run, import, edits, telegram>>
      PROVE  Inv'
  <2> DEFINE g == Matched(old, r, rows[r])
  <2>3. hand' = [hand EXCEPT ![h] = g]
    BY <1>3 DEF Found, Matched
  <2>4. r \in Ids /\ rows[r] # None /\ rows[r] \in UserTu
    BY DEF Active, Inv, RowsShape, Tables
  <2>5. /\ g \in HandSet /\ g.pc = "found" /\ g.row = r /\ g.copy = rows[r]
        /\ g.msg = old.msg /\ g.name = old.name
    BY <1>0, <2>4, HandEdits
  <2>6. HandHolds(g, rows, chat, names, renames)
    BY <1>0, <1>3, <2>4, <2>5 DEF HandHolds
  <2> QED BY <1>1, <1>3, <2>3, <2>5, <2>6
<1>4. CASE HandById(h)
  <2>1. CASE \E r \in ById(chat[old.msg]) : Found(h, r)
    BY <1>3, <1>4, <2>1 DEF HandById, ById
  <2>2. CASE hand' = [hand EXCEPT ![h].pc = "byName"]
    <3> DEFINE g == [old EXCEPT !.pc = "byName"]
    <3>1. g \in HandSet /\ g.pc = "byName" /\ g.msg = old.msg /\ g.name = old.name
      BY <1>0 DEF HandSet
    <3>2. HandHolds(g, rows, chat, names, renames)
      BY <1>0, <1>4, <3>1 DEF HandHolds, HandById
    <3>3. hand' = [hand EXCEPT ![h] = g]
      BY <2>2
    <3> QED BY <1>1, <1>4, <3>1, <3>2, <3>3 DEF HandById
  <2> QED BY <1>4, <2>1, <2>2 DEF HandById
<1>5. CASE HandByName(h)
  <2>1. CASE \E r \in ByName(old.name) : Found(h, r)
    BY <1>3, <1>5, <2>1 DEF HandByName, ByName
  <2>2. CASE hand' = [hand EXCEPT ![h] = IdleHand]
    BY <1>0, <1>idle, <1>1, <1>5, <2>2 DEF HandByName
  <2> QED BY <1>5, <2>1, <2>2 DEF HandByName
<1>6. CASE HandPatch(h)
  <2> DEFINE patched == Patched(old.row, old.copy, chat[old.msg], old.name)
  <2>1. /\ old.row \in Ids /\ rows[old.row] # None /\ old.msg \in 1..Len(chat)
        /\ chat[old.msg] \in Senders /\ old.name \in Names \cup {None}
    BY <1>0, <1>6 DEF HandPatch, HandHolds, HandSet, Inv, TelegramShape
  <2>2. patched \in Tables /\ \A q \in Ids : rows[q] # None => patched[q] # None
    BY <2>1, PatchedType
  <2>3. rows' = rows \/ (rows' = patched /\ Unique(patched))
    BY <1>6 DEF HandPatch
  <2> HIDE DEF patched
  <2>4. RowsShape'
    BY <2>2, <2>3 DEF Inv, RowsShape
  <2>5. Grows
    BY <1>6, <2>2, <2>3 DEF HandPatch, telegram, Grows, Inv, TelegramShape
  <2>6. accepted' \subseteq 1..Len(chat)
    BY <1>6, <2>1 DEF HandPatch, Inv, AdminShape
  <2>7. hand' = [hand EXCEPT ![h] = IdleHand] /\ UNCHANGED <<run, import, edits, telegram>>
    BY <1>6 DEF HandPatch
  <2> QED BY <1>0, <1>idle, <2>4, <2>5, <2>6, <2>7, HandInv
<1> QED BY <1>2, <1>4, <1>5, <1>6
----------------------------------------------------------------------------
(* A run *)

\* A step of a run leaves the live messages and the administrator's work as they are.
LEMMA RunInv ==
  ASSUME Inv, RowsShape', Grows, accepted' \subseteq 1..Len(chat), RunHolds', IndexTrue',
         UNCHANGED <<hand, import, edits, telegram>>
  PROVE  Inv'
<1>1. TelegramShape' /\ UNCHANGED chat
  BY DEF Inv, TelegramShape, telegram
<1>2. AdminShape'
  BY <1>1 DEF Inv, AdminShape
<1> QED BY <1>1, <1>2, HandsKept DEF Inv

LEMMA SameRows ==
  ASSUME Inv, UNCHANGED <<rows, accepted, telegram>>
  PROVE  RowsShape' /\ Grows /\ accepted' \subseteq 1..Len(chat)
BY DEF Inv, RowsShape, AdminShape, Grows, telegram

\* A set of natural numbers has a least.
LEMMA Least == ASSUME NEW S \in SUBSET Nat, S # {} PROVE \E i \in S : \A j \in S : i <= j
<1>1. PICK i \in S : \A j \in S : ~ (<<j, i>> \in OpToRel(<, Nat))
  BY NatLessThanWellFounded, WFMin
<1>2. \A j \in S : ~(j < i)
  BY <1>1 DEF OpToRel
<1> QED BY <1>2

\* An index has the last of the rows with a key.
LEMMA LatestIn == ASSUME NEW found \in SUBSET Ids, found # {} PROVE Latest(found) \in found
<1> DEFINE n == Cardinality(Ids)
           below == {n - r : r \in found}
<1>1. n \in Nat /\ \A r \in found : r \in 1..n
  BY IdsAssumption, FS_CardinalityType
<1> HIDE DEF n
<1>2. below \in SUBSET Nat /\ below # {}
  BY <1>1
<1>3. PICK b \in below : \A c \in below : b <= c
  BY <1>2, Least
<1>4. PICK r \in found : b = n - r
  OBVIOUS
<1>5. ASSUME NEW q \in found PROVE r >= q
  <2>1. n - q \in below
    OBVIOUS
  <2>2. n - r <= n - q
    BY <1>3, <1>4, <2>1
  <2> QED BY <1>1, <2>2
<1>6. \E x \in found : \A y \in found : x >= y
  BY <1>5
<1> QED BY <1>6 DEF Latest, Max

Fetching(g, from) == [g EXCEPT !.pc = "reading", !.from = from]
Further(g) == [g EXCEPT !.next = @ + 1]
Copied(g, table) == Further([g EXCEPT !.users = table])
Indexed(g, byId, byName) == [g EXCEPT !.byId = byId, !.byName = byName]
Begun(table, byId, byName) == Indexed([NoRun EXCEPT !.pc = "started", !.users = table], byId, byName)
Learned(g, table, byId, byName) == Indexed(Copied(g, table), byId, byName)

LEMMA NoRunType == NoRun \in RunSet /\ NoRun.from = <<>> /\ NoRun.next = 1 /\ NoRun.users = NoTable
                   /\ NoRun.pc = "idle"
                   /\ NoRun.byId = [k \in Forms \X Senders |-> None]
                   /\ NoRun.byName = [k \in Forms \X Names |-> None]
<1>1. NoTable \in Tables
  BY DEF NoTable, Tables
<1>2. /\ [k \in Forms \X Senders |-> None] \in [Forms \X Senders -> Ids \cup {None}]
      /\ [k \in Forms \X Names |-> None] \in [Forms \X Names -> Ids \cup {None}]
  OBVIOUS
<1>3. <<>> \in Seq(Names \cup {None})
  OBVIOUS
<1> QED BY <1>1, <1>2, <1>3 DEF NoRun, RunSet, IdIndexes, NameIndexes, Fetches

LEMMA FetchEdit ==
  ASSUME NEW g \in RunSet, NEW from \in Fetches
  PROVE  /\ Fetching(g, from) \in RunSet /\ Fetching(g, from).pc = "reading"
         /\ Fetching(g, from).from = from /\ Fetching(g, from).next = g.next
         /\ Fetching(g, from).users = g.users /\ Fetching(g, from).byId = g.byId
         /\ Fetching(g, from).byName = g.byName
BY DEF RunSet, Fetching

LEMMA FurtherEdit ==
  ASSUME NEW g \in RunSet
  PROVE  /\ Further(g) \in RunSet /\ Further(g).pc = g.pc
         /\ Further(g).from = g.from /\ Further(g).next = g.next + 1
         /\ Further(g).users = g.users /\ Further(g).byId = g.byId
         /\ Further(g).byName = g.byName
BY DEF RunSet, Further

LEMMA CopyEdit ==
  ASSUME NEW g \in RunSet, NEW t \in Tables
  PROVE  LET c == [g EXCEPT !.users = t]
         IN  c \in RunSet /\ c.pc = g.pc /\ c.from = g.from /\ c.next = g.next /\ c.users = t
BY DEF RunSet

LEMMA IndexEdit ==
  ASSUME NEW g \in RunSet, NEW i \in IdIndexes, NEW n \in NameIndexes
  PROVE  /\ Indexed(g, i, n) \in RunSet /\ Indexed(g, i, n).pc = g.pc
         /\ Indexed(g, i, n).from = g.from /\ Indexed(g, i, n).next = g.next
         /\ Indexed(g, i, n).users = g.users
         /\ Indexed(g, i, n).byId = i /\ Indexed(g, i, n).byName = n
BY DEF RunSet, Indexed

LEMMA LearnEdit ==
  ASSUME NEW g \in RunSet, NEW t \in Tables, NEW i \in IdIndexes, NEW n \in NameIndexes
  PROVE  /\ Learned(g, t, i, n) \in RunSet /\ Learned(g, t, i, n).pc = g.pc
         /\ Learned(g, t, i, n).from = g.from /\ Learned(g, t, i, n).next = g.next + 1
         /\ Learned(g, t, i, n).users = t
         /\ Learned(g, t, i, n).byId = i /\ Learned(g, t, i, n).byName = n
<1> DEFINE c == [g EXCEPT !.users = t]
           d == Further(c)
           l == Indexed(d, i, n)
<1>1. c \in RunSet /\ c.pc = g.pc /\ c.from = g.from /\ c.next = g.next /\ c.users = t
  BY CopyEdit
<1> HIDE DEF c
<1>2. d \in RunSet /\ d.pc = c.pc /\ d.from = c.from /\ d.next = c.next + 1 /\ d.users = c.users
  BY <1>1, FurtherEdit
<1> HIDE DEF d
<1>3. /\ l \in RunSet /\ l.pc = d.pc /\ l.from = d.from /\ l.next = d.next /\ l.users = d.users
      /\ l.byId = i /\ l.byName = n
  BY <1>2, IndexEdit
<1>4. Learned(g, t, i, n) = l
  BY DEF Learned, Copied, l, d, c
<1> HIDE DEF l
<1> QED BY <1>1, <1>2, <1>3, <1>4

LEMMA BeginEdit ==
  ASSUME NEW t \in Tables, NEW i \in IdIndexes, NEW n \in NameIndexes
  PROVE  /\ Begun(t, i, n) \in RunSet /\ Begun(t, i, n).from = <<>> /\ Begun(t, i, n).next = 1
         /\ Begun(t, i, n).users = t /\ Begun(t, i, n).byId = i /\ Begun(t, i, n).byName = n
<1> DEFINE c == [NoRun EXCEPT !.pc = "started", !.users = t]
<1>1. c \in RunSet /\ c.from = NoRun.from /\ c.next = NoRun.next /\ c.users = t
  BY NoRunType DEF RunSet
<1>2. Begun(t, i, n) = Indexed(c, i, n)
  BY DEF Begun
<1> HIDE DEF c
<1>3. /\ Indexed(c, i, n) \in RunSet /\ Indexed(c, i, n).from = c.from /\ Indexed(c, i, n).next = c.next
      /\ Indexed(c, i, n).users = c.users
      /\ Indexed(c, i, n).byId = i /\ Indexed(c, i, n).byName = n
  BY <1>1, IndexEdit
<1> QED BY <1>1, <1>2, <1>3, NoRunType

LEMMA RunStartInv == ASSUME Inv, RunStart PROVE Inv'
<1> DEFINE Having(k) == {r \in Active(rows) : k \in {<<ActiveUsers[r].form, ActiveUsers[r].uid>>,
                                                     <<ActiveUsers[r].form, ActiveUsers[r].name>>}}
           i == [k \in Forms \X Senders |-> Latest(Having(k))]
           n == [k \in Forms \X Names |-> Latest(Having(k))]
           b == Begun(ActiveUsers, i, n)
<1>1. run' = b
  BY DEF RunStart, Begun, Indexed
<1>2. /\ ActiveUsers \in Tables
      /\ \A r \in Ids : ActiveUsers[r] # None => rows[r] # None /\ ActiveUsers[r] = rows[r]
      /\ \A r \in Active(rows) : r \in Ids /\ ActiveUsers[r] = rows[r] /\ rows[r] # None /\ rows[r] \in UserTu
  BY DEF ActiveUsers, Active, Inv, RowsShape, Tables
<1>3. \A k : Having(k) \in SUBSET Ids
  BY <1>2
<1>4. \A k : Latest(Having(k)) # None => Latest(Having(k)) \in Having(k)
  <2>1. \A k : Having(k) = {} => Latest(Having(k)) = None
    BY DEF Latest
  <2> HIDE DEF Having
  <2> QED BY <1>3, <2>1, LatestIn
<1>5. \A k : Latest(Having(k)) \in Ids \cup {None}
  BY <1>3, <1>4
<1>6. i \in IdIndexes /\ n \in NameIndexes
  <2> HIDE DEF Having
  <2> QED BY <1>5 DEF IdIndexes, NameIndexes
<1>7. \A f \in Forms, s \in Senders :
        i[<<f, s>>] # None => /\ ActiveUsers[i[<<f, s>>]] # None
                              /\ Pair(ActiveUsers[i[<<f, s>>]]) = <<s, f>>
  <2> SUFFICES ASSUME NEW f \in Forms, NEW s \in Senders, Latest(Having(<<f, s>>)) # None
               PROVE  LET r == Latest(Having(<<f, s>>))
                      IN  ActiveUsers[r] # None /\ Pair(ActiveUsers[r]) = <<s, f>>
    OBVIOUS
  <2> DEFINE r == Latest(Having(<<f, s>>))
  <2>1. r \in Having(<<f, s>>)
    BY <1>4
  <2> HIDE DEF r
  <2>2. r \in Active(rows) /\ <<f, s>> \in {<<ActiveUsers[r].form, ActiveUsers[r].uid>>,
                                           <<ActiveUsers[r].form, ActiveUsers[r].name>>}
    BY <2>1
  <2>3. ActiveUsers[r].name # s
    BY <1>2, <2>2, NoneAssumption DEF UserTu
  <2>4. ActiveUsers[r] # None /\ Pair(ActiveUsers[r]) = <<s, f>>
    BY <1>2, <2>2, <2>3 DEF Pair
  <2> QED BY <2>4 DEF r
<1>8. \A f \in Forms, m \in Names :
        n[<<f, m>>] # None => LET r == n[<<f, m>>]
                              IN  ActiveUsers[r] # None /\ ActiveUsers[r].name = m /\ ActiveUsers[r].form = f
  <2> SUFFICES ASSUME NEW f \in Forms, NEW m \in Names, Latest(Having(<<f, m>>)) # None
               PROVE  LET r == Latest(Having(<<f, m>>))
                      IN  ActiveUsers[r] # None /\ ActiveUsers[r].name = m /\ ActiveUsers[r].form = f
    OBVIOUS
  <2> DEFINE r == Latest(Having(<<f, m>>))
  <2>1. r \in Having(<<f, m>>)
    BY <1>4
  <2> HIDE DEF r
  <2>2. r \in Active(rows) /\ <<f, m>> \in {<<ActiveUsers[r].form, ActiveUsers[r].uid>>,
                                           <<ActiveUsers[r].form, ActiveUsers[r].name>>}
    BY <2>1
  <2>3. ActiveUsers[r].uid # m
    BY <1>2, <2>2, NoneAssumption DEF UserTu
  <2>4. ActiveUsers[r] # None /\ ActiveUsers[r].name = m /\ ActiveUsers[r].form = f
    BY <1>2, <2>2, <2>3
  <2> QED BY <2>4 DEF r
<1> HIDE DEF i, n
<1>9. /\ run' \in RunSet /\ run'.from = <<>> /\ run'.next = 1 /\ run'.users = ActiveUsers
      /\ run'.byId = i /\ run'.byName = n
  BY <1>1, <1>2, <1>6, BeginEdit
<1>10. UNCHANGED <<rows, accepted, hand, import, edits, telegram>>
  BY DEF RunStart
<1>11. RunHolds'
  <2>1. Len(run'.from) = 0 /\ Len(chat') \in Nat
    BY <1>9, <1>10 DEF Inv, TelegramShape, telegram
  <2> QED BY <1>2, <1>9, <1>10, <2>1 DEF RunHolds
<1>12. IndexTrue'
  BY <1>7, <1>8, <1>9 DEF IndexTrue
<1> QED BY <1>10, <1>11, <1>12, SameRows, RunInv

LEMMA RunFetchInv == ASSUME Inv, NEW from \in Fetched, RunFetch(from) PROVE Inv'
<1>1. from \in Fetches /\ Len(from) = Len(chat) /\ Len(chat) \in Nat
  BY DEF Fetched, Fetches, Inv, TelegramShape
<1>2. run' = Fetching(run, from)
  BY DEF RunFetch, Fetching
<1>3. run \in RunSet
  BY DEF Inv, RunHolds
<1>4. /\ run' \in RunSet /\ run'.from = from /\ run'.next = run.next
      /\ run'.users = run.users /\ run'.byId = run.byId /\ run'.byName = run.byName
  BY <1>1, <1>2, <1>3, FetchEdit
<1>5. UNCHANGED <<rows, accepted, hand, import, edits, telegram>>
  BY DEF RunFetch
<1>6. run'.next \in 1..Len(run'.from) + 1
  BY <1>1, <1>3, <1>4 DEF Inv, RunHolds, RunSet, Fetches
<1>7. \A i \in 1..Len(run'.from) : run'.from[i] \in SenderName(chat[i])'
  BY <1>1, <1>4 DEF RunFetch, SenderName, telegram
<1>8. RunHolds'
  BY <1>1, <1>4, <1>5, <1>6, <1>7 DEF Inv, RunHolds, telegram
<1>9. IndexTrue'
  BY <1>4 DEF Inv, IndexTrue
<1> QED BY <1>5, <1>8, <1>9, SameRows, RunInv

\* The run goes on to the next message, its copy as it was.
LEMMA RunFurther ==
  ASSUME Inv, run.next <= Len(run.from), run' = Further(run), UNCHANGED telegram,
         \A q \in Ids : rows[q] # None => rows'[q] # None
  PROVE  RunHolds' /\ IndexTrue'
<1>1. run \in RunSet /\ Len(run.from) \in Nat
  BY DEF Inv, RunHolds, RunSet, Fetches
<1>2. /\ run' \in RunSet /\ run'.from = run.from /\ run'.next = run.next + 1
      /\ run'.users = run.users /\ run'.byId = run.byId /\ run'.byName = run.byName
  BY <1>1, FurtherEdit
<1>3. run'.next \in 1..Len(run'.from) + 1
  BY <1>1, <1>2 DEF Inv, RunHolds
<1>4. RunHolds'
  BY <1>2, <1>3 DEF Inv, RunHolds, telegram, SenderName
<1>5. IndexTrue'
  BY <1>2 DEF Inv, IndexTrue
<1> QED BY <1>4, <1>5

LEMMA RunPassInv == ASSUME Inv, RunPass PROVE Inv'
<1>1. run' = Further(run) /\ run.next <= Len(run.from)
  BY DEF RunPass, NoUser, Further
<1>2. UNCHANGED <<rows, accepted, hand, import, edits, telegram>>
  BY DEF RunPass
<1> QED BY <1>1, <1>2, RunFurther, SameRows, RunInv

LEMMA RunOver == ASSUME Inv, run' = NoRun, UNCHANGED telegram PROVE RunHolds' /\ IndexTrue'
<1>1. Len(NoRun.from) = 0 /\ Len(chat') \in Nat
  BY NoRunType DEF Inv, TelegramShape, telegram
<1>2. RunHolds'
  BY <1>1, NoRunType DEF RunHolds, NoTable
<1>3. IndexTrue'
  BY NoRunType DEF IndexTrue
<1> QED BY <1>2, <1>3

LEMMA RunEndInv == ASSUME Inv, RunEnd PROVE Inv'
BY RunOver, SameRows, RunInv DEF RunEnd

\* A message is matched with a copy that has its sender's id or the name it came with.
LEMMA Match ==
  ASSUME Inv, NEW i \in 1..Len(run.from), matchAuthorizedUser(chat[i], run.from[i]) # None
  PROVE  LET r == matchAuthorizedUser(chat[i], run.from[i])
             n == run.from[i]
         IN  /\ r \in Ids /\ run.users[r] \in UserTu /\ rows[r] # None
             /\ run.users[r].uid = chat[i] \/ (n # None /\ run.users[r].name = n)
             /\ chat[i] \in Senders /\ n \in Names \cup {None} /\ i \in 1..Len(chat)
<1> DEFINE s == chat[i]
           n == run.from[i]
           r == matchAuthorizedUser(s, n)
<1>1. run \in RunSet /\ Len(run.from) \in Nat /\ Len(chat) \in Nat
  BY DEF Inv, RunHolds, RunSet, Fetches, TelegramShape
<1>2. i \in 1..Len(chat) /\ s \in Senders /\ n \in Names \cup {None}
  BY <1>1 DEF Inv, RunHolds, TelegramShape, RunSet, Fetches
<1>3. /\ \A k \in Forms \X Senders : run.byId[k] \in Ids \cup {None}
      /\ \A k \in Forms \X Names : run.byName[k] \in Ids \cup {None}
      /\ \A q \in Ids : run.users[q] \in UserTu \cup {None}
  BY <1>1 DEF RunSet, IdIndexes, NameIndexes, Tables
<1>4. ASSUME r = Entry(run.byId, s), r # None
      PROVE  r \in Ids /\ run.users[r] # None /\ run.users[r].uid = s
  <2>1. PICK f \in Forms : r = run.byId[<<f, s>>]
    BY <1>4 DEF Entry, Forms
  <2>2. r \in Ids
    BY <1>2, <1>3, <1>4, <2>1
  <2>3. run.users[r] # None /\ Pair(run.users[r]) = <<s, f>>
    BY <1>2, <1>4, <2>1 DEF Inv, IndexTrue
  <2> QED BY <2>2, <2>3 DEF Pair
<1>5. ASSUME n # None, r = Entry(run.byName, n), r # None
      PROVE  r \in Ids /\ run.users[r] # None /\ run.users[r].name = n
  <2>1. PICK f \in Forms : r = run.byName[<<f, n>>]
    BY <1>5 DEF Entry, Forms
  <2>2. r \in Ids
    BY <1>2, <1>3, <1>5, <2>1
  <2>3. run.users[r] # None /\ run.users[r].name = n
    BY <1>2, <1>5, <2>1 DEF Inv, IndexTrue
  <2> QED BY <2>2, <2>3
<1>6. r # None
  OBVIOUS
<1>7. r = Entry(run.byId, s) \/ (n # None /\ r = Entry(run.byName, n))
  BY <1>6 DEF matchAuthorizedUser
<1> HIDE DEF r
<1>8. r \in Ids /\ run.users[r] # None /\ (run.users[r].uid = s \/ (n # None /\ run.users[r].name = n))
  BY <1>4, <1>5, <1>6, <1>7
<1>9. rows[r] # None
  BY <1>8 DEF Inv, RunHolds
<1> QED BY <1>2, <1>3, <1>8, <1>9 DEF r

LEMMA ReindexedEdit ==
  ASSUME NEW D, NEW index \in [D -> Ids \cup {None}], NEW old, NEW new, NEW r \in Ids
  PROVE  /\ Reindexed(index, old, new, r) \in [D -> Ids \cup {None}]
         /\ \A k \in D : Reindexed(index, old, new, r)[k] = IF k = new THEN r ELSE IF k = old THEN None ELSE index[k]
BY DEF Reindexed

Put(table, r, user) == [table EXCEPT ![r] = user]

\* What a message fills in moves the row's entries from what its copy was to what it is.
LEMMA RunLearns ==
  ASSUME Inv, run.next <= Len(run.from), NEW r \in Ids, NEW old, old = run.users[r], old \in UserTu, NEW new \in UserTu,
         run' = Learned(run, Put(run.users, r, new),
                        Reindexed(run.byId, <<old.form, old.uid>>, <<new.form, new.uid>>, r),
                        Reindexed(run.byName, <<old.form, old.name>>, <<new.form, new.name>>, r)),
         rows[r] # None, UNCHANGED telegram, \A q \in Ids : rows[q] # None => rows'[q] # None
  PROVE  RunHolds' /\ IndexTrue'
<1> DEFINE t == Put(run.users, r, new)
           i == Reindexed(run.byId, <<old.form, old.uid>>, <<new.form, new.uid>>, r)
           n == Reindexed(run.byName, <<old.form, old.name>>, <<new.form, new.name>>, r)
<1>1. run \in RunSet /\ Len(run.from) \in Nat /\ new # None
  BY NoneAssumption DEF Inv, RunHolds, RunSet, Fetches
<1>2. t \in Tables /\ t[r] = new /\ \A q \in Ids \ {r} : t[q] = run.users[q]
  BY <1>1 DEF Put, RunSet, Tables
<1>3. /\ i \in IdIndexes
      /\ \A k \in Forms \X Senders :
           i[k] = IF k = <<new.form, new.uid>> THEN r ELSE IF k = <<old.form, old.uid>> THEN None ELSE run.byId[k]
  BY <1>1, ReindexedEdit DEF RunSet, IdIndexes
<1>4. /\ n \in NameIndexes
      /\ \A k \in Forms \X Names :
           n[k] = IF k = <<new.form, new.name>> THEN r ELSE IF k = <<old.form, old.name>> THEN None ELSE run.byName[k]
  BY <1>1, ReindexedEdit DEF RunSet, NameIndexes
<1>5. run' = Learned(run, t, i, n)
  OBVIOUS
<1> HIDE DEF t, i, n
<1>6. /\ run' \in RunSet /\ run'.from = run.from /\ run'.next = run.next + 1
      /\ run'.users = t /\ run'.byId = i /\ run'.byName = n
  BY <1>1, <1>2, <1>3, <1>4, <1>5, LearnEdit
<1>7. RunHolds'
  <2>1. run'.next \in 1..Len(run'.from) + 1
    BY <1>1, <1>6 DEF Inv, RunHolds
  <2>2. \A q \in Ids : run'.users[q] # None => rows'[q] # None
    BY <1>2, <1>6 DEF Inv, RunHolds
  <2> QED BY <1>6, <2>1, <2>2 DEF Inv, RunHolds, telegram, SenderName
<1>8. ASSUME NEW f \in Forms, NEW s \in Senders, i[<<f, s>>] # None
      PROVE  t[i[<<f, s>>]] # None /\ Pair(t[i[<<f, s>>]]) = <<s, f>>
  <2>1. CASE <<f, s>> = <<new.form, new.uid>>
    BY <1>1, <1>2, <1>3, <2>1 DEF Pair
  <2>2. CASE <<f, s>> # <<new.form, new.uid>>
    <3>1. <<f, s>> # <<old.form, old.uid>> /\ i[<<f, s>>] = run.byId[<<f, s>>]
      BY <1>3, <1>8, <2>2
    <3> DEFINE q == run.byId[<<f, s>>]
    <3>2. q \in Ids /\ run.users[q] # None /\ Pair(run.users[q]) = <<s, f>>
      BY <1>1, <1>8, <3>1 DEF Inv, IndexTrue, RunSet, IdIndexes
    <3>3. q # r
      BY <3>1, <3>2 DEF Pair
    <3> QED BY <1>2, <3>1, <3>2, <3>3
  <2> QED BY <2>1, <2>2
<1>9. ASSUME NEW f \in Forms, NEW m \in Names, n[<<f, m>>] # None
      PROVE  LET q == n[<<f, m>>] IN t[q] # None /\ t[q].name = m /\ t[q].form = f
  <2>1. CASE <<f, m>> = <<new.form, new.name>>
    BY <1>1, <1>2, <1>4, <2>1
  <2>2. CASE <<f, m>> # <<new.form, new.name>>
    <3>1. <<f, m>> # <<old.form, old.name>> /\ n[<<f, m>>] = run.byName[<<f, m>>]
      BY <1>4, <1>9, <2>2
    <3> DEFINE q == run.byName[<<f, m>>]
    <3>2. q \in Ids /\ run.users[q] # None /\ run.users[q].name = m /\ run.users[q].form = f
      BY <1>1, <1>9, <3>1 DEF Inv, IndexTrue, RunSet, NameIndexes
    <3>3. q # r
      BY <3>1, <3>2
    <3> QED BY <1>2, <3>1, <3>2, <3>3
  <2> QED BY <2>1, <2>2
<1>10. IndexTrue'
  BY <1>6, <1>8, <1>9 DEF IndexTrue
<1> QED BY <1>7, <1>10

Chain(g, r, u, a, b, c, d) ==
  [g EXCEPT !.users[r] = u, !.next = @ + 1, !.byId = Reindexed(@, a, b, r), !.byName = Reindexed(@, c, d, r)]

LEMMA LearnChain ==
  ASSUME NEW g \in RunSet, NEW r, NEW u, NEW a, NEW b, NEW c, NEW d
  PROVE  Chain(g, r, u, a, b, c, d)
         = Learned(g, Put(g.users, r, u), Reindexed(g.byId, a, b, r), Reindexed(g.byName, c, d, r))
BY DEF Chain, Put, Learned, Indexed, Copied, Further, RunSet

LEMMA RunAcceptInv == ASSUME Inv, RunAccept PROVE Inv'
<1> DEFINE i == run.next
           s == chat[i]
           n == run.from[i]
           r == matchAuthorizedUser(s, n)
           old == run.users[r]
           patched == Patched(r, old, s, n)
           new == IF Patch(old, old, s, n) = old THEN old ELSE [patched[r] EXCEPT !.active = old.active]
           byId == Reindexed(run.byId, <<old.form, old.uid>>, <<new.form, new.uid>>, r)
           byName == Reindexed(run.byName, <<old.form, old.name>>, <<new.form, new.name>>, r)
<1>1. i \in 1..Len(run.from) /\ r # None
  <2>1. run \in RunSet /\ Len(run.from) \in Nat
    BY DEF Inv, RunHolds, RunSet, Fetches
  <2>2. i \in Nat /\ i >= 1 /\ i <= Len(run.from)
    <3>1. i <= Len(run.from)
      BY DEF RunAccept
    <3> QED BY <2>1, <3>1 DEF Inv, RunHolds
  <2>3. ~NoUser(i)
    BY DEF RunAccept
  <2> QED BY <2>1, <2>2, <2>3 DEF NoUser
<1>2. /\ r \in Ids /\ old \in UserTu /\ rows[r] # None /\ s \in Senders /\ n \in Names \cup {None}
      /\ i \in 1..Len(chat)
  BY <1>1, Match
<1>3. patched \in Tables /\ \A q \in Ids : rows[q] # None => patched[q] # None
  BY <1>2, PatchedType
<1>4. UNCHANGED <<hand, import, edits, telegram>>
  BY DEF RunAccept
<1>5. CASE ~Unique(patched)
  BY <1>4, <1>5, RunOver, SameRows, RunInv DEF RunAccept
<1>6. CASE Unique(patched)
  <2>1. rows' = patched /\ accepted' = accepted \cup {i}
    BY <1>6 DEF RunAccept
  <2>2. RowsShape' /\ Grows /\ accepted' \subseteq 1..Len(chat)
    <3> HIDE DEF patched, i
    <3> QED BY <1>2, <1>3, <1>4, <1>6, <2>1 DEF Inv, RowsShape, AdminShape, Grows, telegram
  <2>3. run' = IF new = old THEN Further(run)
                        ELSE Chain(run, r, new, <<old.form, old.uid>>, <<new.form, new.uid>>,
                                   <<old.form, old.name>>, <<new.form, new.name>>)
    BY <1>6 DEF RunAccept, Chain, Further
  <2>4. new \in UserTu
    <3>1. patched[r] \in UserTu
      BY <1>2, <1>3 DEF Tables
    <3> DEFINE p == patched[r]
    <3> HIDE DEF p
    <3>2. [p EXCEPT !.active = old.active] \in UserTu
      BY <1>2, <3>1 DEF UserTu, p
    <3> QED BY <1>2, <3>2 DEF p
  <2>5. CASE new = old
    <3>1. run' = Further(run) /\ run.next <= Len(run.from)
      <4> HIDE DEF new, old
      <4> QED BY <1>1, <2>3, <2>5
    <3>2. \A q \in Ids : rows[q] # None => rows'[q] # None
      BY <1>3, <2>1
    <3>3. RunHolds' /\ IndexTrue'
      BY <1>4, <3>1, <3>2, RunFurther
    <3> QED BY <1>4, <2>2, <3>3, RunInv
  <2>6. CASE new # old
    <3>0. run \in RunSet
      BY DEF Inv, RunHolds
    <3> HIDE DEF new, old, r
    <3>1. run' = Learned(run, Put(run.users, r, new), byId, byName)
      <4> DEFINE oldId == <<old.form, old.uid>>
                 newId == <<new.form, new.uid>>
                 oldName == <<old.form, old.name>>
                 newName == <<new.form, new.name>>
      <4>1. run' = Chain(run, r, new, oldId, newId, oldName, newName)
        BY <2>3, <2>6
      <4> HIDE DEF oldId, newId, oldName, newName
      <4>2. Chain(run, r, new, oldId, newId, oldName, newName)
            = Learned(run, Put(run.users, r, new), Reindexed(run.byId, oldId, newId, r),
                      Reindexed(run.byName, oldName, newName, r))
        BY <3>0, LearnChain
      <4> QED BY <4>1, <4>2 DEF oldId, newId, oldName, newName
    <3> QED BY <1>1, <1>2, <1>3, <1>4, <2>1, <2>2, <2>4, <3>1, RunLearns, RunInv DEF old
  <2> QED BY <2>5, <2>6
<1> QED BY <1>5, <1>6
----------------------------------------------------------------------------
(* The administrator *)

LEMMA AdminInv ==
  ASSUME Inv, rows' \in Tables, Unique(rows'), \A r \in Ids : rows[r] # None => rows'[r] # None,
         \A i \in DOMAIN import' : import'[i] \in Ids \X UserTu, edits' \in 0..MaxEdits,
         UNCHANGED <<accepted, hand, run, telegram>>
  PROVE  Inv'
<1>1. TelegramShape' /\ Grows
  BY DEF Inv, TelegramShape, Grows, telegram
<1>2. AdminShape'
  BY DEF Inv, AdminShape, telegram
<1> QED BY <1>1, <1>2, HandsKept, RunKept DEF Inv, RowsShape

LEMMA EditInv ==
  ASSUME Inv, NEW r \in Ids, NEW row \in Edits, createTarget(r, row) \/ updateTarget(r, row)
  PROVE  Inv'
<1>1. row \in UserTu /\ row # None
  BY NoneAssumption
<1>2. Written([rows EXCEPT ![r] = row])
  BY DEF createTarget, updateTarget
<1>3. rows' \in Tables /\ Unique(rows') /\ \A q \in Ids : rows[q] # None => rows'[q] # None
  BY <1>1, <1>2 DEF Written, Inv, RowsShape, Tables
<1>4. edits' \in 0..MaxEdits /\ UNCHANGED import
  BY <1>2, BoundsAssumption DEF Written, Inv, AdminShape
<1> QED BY <1>2, <1>3, <1>4, AdminInv DEF Written, Inv, AdminShape

LEMMA ImportReadInv == ASSUME Inv, NEW file \in Files, ImportRead(file) PROVE Inv'
<1> DEFINE holder(e) == resolveTargetUsername(e[2].name)
           known(e) == e[2].uid # None \/ holder(e) # {}
           resolved(e) == IF e[2].uid # None THEN e
                          ELSE <<e[1], [e[2] EXCEPT !.uid = CHOOSE s \in holder(e) : TRUE]>>
           read == [i \in {j \in DOMAIN file : known(file[j])} |-> resolved(file[i])]
<1>1. import' = read /\ edits > 0 /\ edits' = edits - 1 /\ UNCHANGED <<rows, accepted, hand, run, telegram>>
  BY DEF ImportRead
<1>2. \A i \in DOMAIN file : file[i] \in Ids \X UserTu
  BY NoneAssumption
<1>3. ASSUME NEW e \in Ids \X UserTu, known(e) PROVE resolved(e) \in Ids \X UserTu
  <2>1. CASE e[2].uid = None
    <3> DEFINE u == e[2]
               s == CHOOSE x \in holder(e) : TRUE
    <3>1. u \in UserTu /\ e[1] \in Ids
      OBVIOUS
    <3>2. s \in Senders
      BY <1>3, <2>1 DEF resolveTargetUsername
    <3> HIDE DEF u, s
    <3>3. [u EXCEPT !.uid = s] \in UserTu
      BY <3>1, <3>2 DEF UserTu
    <3>4. resolved(e) = <<e[1], [u EXCEPT !.uid = s]>>
      BY <2>1 DEF u, s
    <3> QED BY <3>1, <3>3, <3>4
  <2> QED BY <2>1
<1> HIDE DEF known, resolved
<1>4. \A i \in DOMAIN read : read[i] \in Ids \X UserTu
  BY <1>2, <1>3
<1> HIDE DEF read
<1>5. edits' \in 0..MaxEdits
  BY <1>1, BoundsAssumption DEF Inv, AdminShape
<1> QED BY <1>1, <1>4, <1>5, AdminInv DEF Inv, RowsShape

LEMMA ImportWriteInv == ASSUME Inv, ImportWrite PROVE Inv'
<1> DEFINE upserted(r) == {import[i][2] : i \in {j \in DOMAIN import : import[j][1] = r}}
           table == [r \in Ids |-> IF upserted(r) = {} THEN rows[r] ELSE CHOOSE u \in upserted(r) : TRUE]
<1>1. rows' = rows \/ (rows' = table /\ ~ImportConflict)
  BY DEF ImportWrite
<1>2. \A r \in Ids : table[r] = rows[r] \/ table[r] \in upserted(r)
  OBVIOUS
<1>3. \A r \in Ids : table[r] # rows[r] =>
        \E i \in DOMAIN import : import[i][1] = r /\ import[i][2] = table[r] /\ import[i] \in Ids \X UserTu
  BY <1>2 DEF Inv, AdminShape
<1>4. DOMAIN table = Ids /\ table = [r \in Ids |-> table[r]]
  OBVIOUS
<1> HIDE DEF upserted, table
<1>5. ASSUME NEW r \in Ids PROVE table[r] \in UserTu \cup {None} /\ (rows[r] # None => table[r] # None)
  <2>1. CASE table[r] = rows[r]
    BY <2>1 DEF Inv, RowsShape, Tables
  <2>2. CASE table[r] # rows[r]
    BY <1>3, <2>2, NoneAssumption
  <2> QED BY <2>1, <2>2
<1>6. table \in Tables
  BY <1>4, <1>5 DEF Tables
<1>7. ASSUME ~ImportConflict, NEW r \in Ids, NEW q \in Ids, r # q, table[r] # None, table[q] # None
      PROVE  Pair(table[r]) # Pair(table[q])
  <2>1. CASE table[r] = rows[r] /\ table[q] = rows[q]
    BY <1>7, <2>1 DEF Inv, RowsShape, Unique
  <2>2. CASE table[r] # rows[r] /\ table[q] # rows[q]
    BY <1>3, <1>7, <2>2 DEF ImportConflict
  <2>3. CASE table[r] # rows[r] /\ table[q] = rows[q]
    BY <1>3, <1>7, <2>3 DEF ImportConflict
  <2>4. CASE table[r] = rows[r] /\ table[q] # rows[q]
    BY <1>3, <1>7, <2>4 DEF ImportConflict
  <2> QED BY <2>1, <2>2, <2>3, <2>4
<1>8. rows' \in Tables /\ Unique(rows') /\ \A r \in Ids : rows[r] # None => rows'[r] # None
  BY <1>1, <1>5, <1>6, <1>7 DEF Unique, Inv, RowsShape
<1>9. import' = <<>> /\ UNCHANGED <<accepted, hand, run, edits, telegram>>
  BY DEF ImportWrite
<1> QED BY <1>8, <1>9, AdminInv DEF Inv, AdminShape
----------------------------------------------------------------------------
(* The specification *)

LEMMA InitInv == Init => Inv
<1> SUFFICES ASSUME Init PROVE Inv
  OBVIOUS
<1>1. RowsShape
  BY RegistriesAssumption DEF Init, RowsShape
<1>2. TelegramShape /\ Len(chat) = 0
  BY BoundsAssumption DEF Init, TelegramShape
<1>3. AdminShape
  BY BoundsAssumption DEF Init, AdminShape
<1>4. HandsHold
  <2>1. IdleHand \in HandSet
    BY NoneAssumption DEF IdleHand, HandSet
  <2>2. HandHolds(IdleHand, rows, chat, names, renames)
    BY DEF IdleHand, HandHolds
  <2> QED BY <2>1, <2>2 DEF Init, HandsHold
<1>5. run = NoRun
  BY DEF Init
<1>6. RunHolds
  <2>1. Len(NoRun.from) = 0
    BY NoRunType
  <2> QED BY <1>2, <1>5, <2>1, NoRunType DEF RunHolds, NoTable
<1>7. IndexTrue
  BY <1>5, NoRunType DEF IndexTrue
<1> QED BY <1>1, <1>2, <1>3, <1>4, <1>6, <1>7 DEF Inv

LEMMA StutterInv == ASSUME Inv, UNCHANGED vars PROVE Inv'
<1>1. RowsShape' /\ Grows /\ accepted' \subseteq 1..Len(chat) /\ UNCHANGED <<hand, run, import, edits, telegram>>
  BY DEF vars, telegram, Inv, RowsShape, AdminShape, Grows
<1>2. TelegramShape'
  BY <1>1 DEF Inv, TelegramShape, telegram
<1> QED BY <1>1, <1>2, RunKept, RunInv

LEMMA StepInv == Inv /\ [Next]_vars => Inv'
<1> SUFFICES ASSUME Inv, [Next]_vars PROVE Inv'
  OBVIOUS
<1>1. CASE Telegram
  BY <1>1, PostInv, RenameInv DEF Telegram
<1>2. CASE Live
  BY <1>2, HandSteps DEF Live
<1>3. CASE Reconcile
  BY <1>3, RunStartInv, RunFetchInv, RunPassInv, RunAcceptInv, RunEndInv DEF Reconcile
<1>4. CASE Administrator
  BY <1>4, EditInv, ImportReadInv, ImportWriteInv DEF Administrator
<1>5. CASE UNCHANGED vars
  BY <1>5, StutterInv
<1> QED BY <1>1, <1>2, <1>3, <1>4, <1>5 DEF Next

THEOREM Invariance == Spec => []Inv
BY InitInv, StepInv, PTL DEF Spec

\* The table keeps its pairs unique, whoever writes it, and everything in flight has
\* the shape it should.
THEOREM TypeIsKept == Spec => []TypeOK
<1>1. Inv => TypeOK
  <2> SUFFICES ASSUME Inv PROVE TypeOK
    OBVIOUS
  <2>1. \A h \in Handlers : hand[h] \in HandSet /\ hand[h].msg \in 0..Len(chat)
    BY DEF Inv, TelegramShape, HandsHold, HandHolds, HandSet
  <2>2. hand \in [Handlers -> [pc : {"idle", "byId", "byName", "found"}, msg : 0..Len(chat),
                               name : Names \cup {None}, row : Ids \cup {None}, copy : UserTu \cup {None}]]
    BY <2>1 DEF HandSet, Inv, HandsHold
  <2>3. run \in RunSet /\ run.next \in 1..MaxPosts + 1
    BY BoundsAssumption DEF Inv, TelegramShape, RunHolds, RunSet, Fetches
  <2>4. run \in [pc : {"idle", "started", "reading"}, users : Tables, byId : IdIndexes, byName : NameIndexes,
                 from : Fetches, next : 1..MaxPosts + 1]
    BY <2>3 DEF RunSet
  <2> QED BY <2>2, <2>4 DEF TypeOK, Inv, RowsShape, TelegramShape, AdminShape, IdIndexes, NameIndexes, Fetches
<1> QED BY <1>1, Invariance, PTL

\* However many users a run fills in, its maps say of each what its copy says.
THEOREM MapsAreTrue == Spec => []IndexTrue
<1>1. Inv => IndexTrue
  BY DEF Inv
<1> QED BY <1>1, Invariance, PTL
----------------------------------------------------------------------------
(* Taking a message *)

\* The row that takes a message has its sender's id from then on; another account that
\* the row registered until then is named by it with an id or a username that the
\* message's sender has in the copy or in Telegram, so that two accounts share the copy.
LEMMA Taken ==
  ASSUME Inv, ~Misnamed, NEW r \in Ids, rows[r] # None, NEW copy \in UserTu,
         copy \in {run.users[q] : q \in Ids} \cup {hand[h].copy : h \in Handlers},
         NEW s \in Senders, NEW n \in {names[s], None},
         copy.uid = s \/ (n # None /\ copy.name = n), ~Reassigned(rows[r], copy, s),
         rows' = Patched(r, copy, s, n), names' = names,
         NEW t \in Senders, Registered(t)
  PROVE  Registered(t)'
<1>0. s # None /\ t # None /\ n \in Names \cup {None}
  BY NoneAssumption DEF Inv, TelegramShape
<1>1. rows[r] \in UserTu
  BY DEF Inv, RowsShape, Tables
<1> DEFINE row == rows[r]
           new == Patch(row, copy, s, n)
<1>2. /\ rows'[r] = new /\ \A q \in Ids \ {r} : rows'[q] = rows[q]
  BY DEF Patched, Inv, RowsShape, Tables
<1>3. /\ new \in UserTu /\ new # None /\ new.active = row.active
      /\ new.uid = IF copy.uid # s THEN s ELSE row.uid
  <2>1. row \in UserTu
    BY <1>1
  <2> HIDE DEF row
  <2>2. /\ Patch(row, copy, s, n) \in UserTu
        /\ Patch(row, copy, s, n).uid = IF copy.uid # s THEN s ELSE row.uid
        /\ Patch(row, copy, s, n).active = row.active
    BY <1>0, <2>1, PatchType
  <2> HIDE DEF new
  <2>3. new = Patch(row, copy, s, n)
    BY DEF new
  <2> QED BY <2>2, <2>3, NoneAssumption
<1>4. row.uid \in {copy.uid, s} /\ row.name \in {copy.name, names[s], None}
  BY DEF Reassigned
<1>5. new.uid = s
  BY <1>3, <1>4
<1>6. PICK q \in Active(rows) : rows[q].uid = t \/ (names[t] # None /\ rows[q].name = names[t])
  BY DEF Registered
<1>7. CASE q # r
  BY <1>2, <1>6, <1>7 DEF Active, Registered
<1>8. CASE q = r /\ t = s
  BY <1>2, <1>3, <1>5, <1>6, <1>8 DEF Active, Registered
<1>9. CASE q = r /\ t # s
  <2>1. copy # None /\ \A u \in Senders : copy.uid \in {None, u} \/ copy.name = None \/ names[u] # copy.name
    BY NoneAssumption DEF Misnamed
  <2>2. row.uid # t
    BY <1>0, <1>4, <1>9, <2>1
  <2>3. names[t] # None /\ row.name = names[t]
    BY <1>6, <1>9, <2>2
  <2>4. names[s] # names[t] /\ copy.name = names[t]
    BY <1>4, <1>9, <2>3 DEF Inv, TelegramShape
  <2>5. copy.uid = s
    BY <2>3, <2>4
  <2> QED BY <1>0, <1>9, <2>1, <2>3, <2>4, <2>5
<1> QED BY <1>7, <1>8, <1>9

\* Taking a message, live or in a run, leaves every account registered that was.
THEOREM AccountsKept == Spec => OthersKept
<1> DEFINE Kept == renames = MaxRenames /\ ~Misnamed /\ ~Overwriting
                   => \A s \in Senders : Registered(s) => Registered(s)'
           A == Live \/ RunAccept => Kept
<1>1. ASSUME UNCHANGED <<rows, names>> PROVE Kept
  BY <1>1 DEF Registered, Active
<1>2. ASSUME Inv, NEW h \in Handlers, HandPatch(h) PROVE Kept
  <2> SUFFICES ASSUME renames = MaxRenames, ~Misnamed, ~Overwriting, NEW t \in Senders, Registered(t)
               PROVE  Registered(t)'
    OBVIOUS
  <2> DEFINE g == hand[h]
  <2>1. g \in HandSet /\ HandHolds(g, rows, chat, names, renames) /\ g.pc = "found" /\ names' = names
    BY <1>2 DEF Inv, HandsHold, HandPatch, telegram
  <2>2. /\ g.row \in Ids /\ rows[g.row] # None /\ g.copy \in UserTu /\ chat[g.msg] \in Senders
        /\ g.name \in {names[chat[g.msg]], None}
        /\ g.copy.uid = chat[g.msg] \/ (g.name # None /\ g.copy.name = g.name)
    BY <1>2, <2>1 DEF HandHolds, Inv, TelegramShape
  <2>3. ~Reassigned(rows[g.row], g.copy, chat[g.msg])
    BY <2>1 DEF Overwriting
  <2>4. rows' = rows \/ rows' = Patched(g.row, g.copy, chat[g.msg], g.name)
    BY <1>2 DEF HandPatch
  <2>5. g.copy \in {hand[k].copy : k \in Handlers}
    OBVIOUS
  <2> HIDE DEF g
  <2> QED BY <1>1, <1>2, <2>1, <2>2, <2>3, <2>4, <2>5, Taken
<1>3. ASSUME Inv, RunAccept PROVE Kept
  <2> SUFFICES ASSUME renames = MaxRenames, ~Misnamed, ~Overwriting, NEW t \in Senders, Registered(t)
               PROVE  Registered(t)'
    OBVIOUS
  <2> DEFINE i == run.next
             s == chat[i]
             n == run.from[i]
             r == matchAuthorizedUser(s, n)
  <2>1. run.pc = "reading" /\ i <= Len(run.from) /\ ~NoUser(i) /\ names' = names
    BY <1>3 DEF RunAccept, telegram
  <2>2. i \in 1..Len(run.from) /\ r # None
    <3>1. run \in RunSet /\ Len(run.from) \in Nat
      BY <1>3 DEF Inv, RunHolds, RunSet, Fetches
    <3> QED BY <1>3, <2>1, <3>1 DEF NoUser, Inv, RunHolds
  <2>3. /\ r \in Ids /\ run.users[r] \in UserTu /\ rows[r] # None /\ s \in Senders
        /\ run.users[r].uid = s \/ (n # None /\ run.users[r].name = n)
    BY <1>3, <2>2, Match
  <2>4. n \in {names[s], None}
    BY <1>3, <2>2 DEF Inv, RunHolds, SenderName
  <2>5. ~Reassigned(rows[r], run.users[r], s)
    BY <2>1 DEF Overwriting
  <2>6. rows' = rows \/ rows' = Patched(r, run.users[r], s, n)
    BY <1>3 DEF RunAccept
  <2>7. run.users[r] \in {run.users[q] : q \in Ids}
    BY <2>3
  <2> HIDE DEF i, s, n, r
  <2> QED BY <1>1, <1>3, <2>1, <2>3, <2>4, <2>5, <2>6, <2>7, Taken
<1>4. Inv /\ [Next]_vars => [A]_vars
  <2> SUFFICES ASSUME Inv, Live \/ RunAccept PROVE Kept
    OBVIOUS
  <2> HIDE DEF Kept
  <2>1. \A h \in Handlers : HandTake(h) \/ HandById(h) \/ HandByName(h) => UNCHANGED <<rows, names>>
    BY DEF HandTake, HandById, HandByName, telegram
  <2> QED BY <1>1, <1>2, <1>3, <2>1 DEF Live
<1> QED BY <1>4, Invariance, PTL DEF Spec, OthersKept
=============================================================================
