--------------------------- MODULE SenderRegistry ---------------------------
(***************************************************************************)
(* Who a sender is.  The rows of user_tu name the accounts whose media of a   *)
(* chat are taken, by id or by username.  Live messages look a sender up in   *)
(* the table, a reconciliation run in the copy it took when it began; both     *)
(* write into the row what the message tells and the row does not know yet.   *)
(* An administrator creates, edits and imports rows meanwhile, and accounts    *)
(* change their names.                                                       *)
(*                                                                          *)
(* One chat, whose id messages give in its canonical form, while rows may hold *)
(* an older one.  A run reads the whole chat: which part it reads is           *)
(* HistoryCursor's.                                                           *)
(***************************************************************************)
EXTENDS Integers, Sequences, FiniteSetsExt

CONSTANTS
  Ids,         \* of rows, numbered in their order
  Senders,     \* accounts
  Names,       \* usernames
  Registries,  \* tables to begin with
  Edits,       \* rows an administrator writes
  Files,       \* rows to import, in sequences of <<id, row>>; uid None is to resolve
  Handlers,    \* concurrent live messages
  MaxPosts, MaxEdits, MaxRenames,  \* bounds
  None         \* no row, no username, an id not known yet (0 in the table)

Forms == {"canonical", "legacy"}
UserTu == [uid : Senders \cup {None}, form : Forms, name : Names \cup {None}, active : BOOLEAN]
Tables == [Ids -> UserTu \cup {None}]

ASSUME IdsAssumption == IsFiniteSet(Ids) /\ Ids = 1..Cardinality(Ids)
ASSUME NoneAssumption ==
  /\ None \notin Senders \cup Names \cup Ids \cup UserTu /\ Senders \cap Names = {}
  /\ Edits \subseteq UserTu
  /\ \A f \in Files : f \in Seq(Ids \X UserTu)

\* The key of user_tu.
Pair(row) == <<row.uid, row.form>>
Unique(table) ==
  \A r, q \in Ids : r # q /\ table[r] # None /\ table[q] # None => Pair(table[r]) # Pair(table[q])
ASSUME RegistriesAssumption == Registries \subseteq {t \in Tables : Unique(t)}
ASSUME BoundsAssumption == MaxPosts \in Nat /\ MaxEdits \in Nat /\ MaxRenames \in Nat

VARIABLES
  rows,      \* user_tu
  names,     \* the accounts' usernames, in Telegram
  chat,      \* the senders of the chat's messages
  accepted,  \* messages that reached processIncomingMessage
  hand,      \* handleIncoming of live messages
  run,       \* a reconciliation run
  import,    \* importTargets: the rows to write, by their place in the file
  edits, renames

vars == <<rows, names, chat, accepted, hand, run, import, edits, renames>>
telegram == <<names, chat, renames>>

IdleHand == [pc |-> "idle", msg |-> 0, name |-> None, row |-> None, copy |-> None]
NoTable == [r \in Ids |-> None]
NoRun == [pc |-> "idle", users |-> NoTable, byId |-> [k \in Forms \X Senders |-> None],
          byName |-> [k \in Forms \X Names |-> None], from |-> <<>>, next |-> 1]

Active(table) == {r \in Ids : table[r] # None /\ table[r].active}

Init ==
  /\ rows \in Registries
  /\ names \in [Senders -> Names \cup {None}]
  /\ \A s, t \in Senders : s # t /\ names[s] # None => names[s] # names[t]
  /\ chat = <<>> /\ accepted = {} /\ hand = [h \in Handlers |-> IdleHand]
  /\ run = NoRun /\ import = <<>> /\ edits = MaxEdits /\ renames = MaxRenames
----------------------------------------------------------------------------
(* Telegram *)

Post(s) ==
  /\ Len(chat) < MaxPosts
  /\ chat' = Append(chat, s)
  /\ UNCHANGED <<rows, names, accepted, hand, run, import, edits, renames>>

Rename(s, n) ==
  /\ renames > 0 /\ names[s] # n
  /\ n # None => \A t \in Senders : names[t] # n
  /\ names' = [names EXCEPT ![s] = n] /\ renames' = renames - 1
  /\ UNCHANGED <<rows, chat, accepted, hand, run, import, edits>>

\* parseMessage: the name as it is, or none when the entity is not resolved.
SenderName(s) == {names[s], None}
----------------------------------------------------------------------------
(* handleIncoming: what is written back *)

\* The fields in which the message differs from the copy that was read.
Patch(row, copy, s, n) ==
  [row EXCEPT !.uid = IF copy.uid # s THEN s ELSE @,
              !.name = IF n # None /\ copy.name # n THEN n ELSE @,
              !.form = IF copy.form # "canonical" THEN "canonical" ELSE @]

Patched(r, copy, s, n) == [rows EXCEPT ![r] = Patch(@, copy, s, n)]
----------------------------------------------------------------------------
(* findAuthorizedUser: two queries, and then the update *)

HandTake(h) ==
  /\ hand[h].pc = "idle"
  /\ \E i \in 1..Len(chat) : \E n \in SenderName(chat[i]) :
       hand' = [hand EXCEPT ![h] = [IdleHand EXCEPT !.pc = "byId", !.msg = i, !.name = n]]
  /\ UNCHANGED <<rows, accepted, run, import, edits, telegram>>

ById(s) == {r \in Active(rows) : rows[r].uid = s}
\* Mutant: a message without a username matches a row without one.
ByAnyName(n) == {r \in Active(rows) : rows[r].name = n}
ByName(n) == {r \in Active(rows) : n # None /\ rows[r].name = n}

Found(h, r) == hand' = [hand EXCEPT ![h].pc = "found", ![h].row = r, ![h].copy = rows[r]]

HandById(h) ==
  /\ hand[h].pc = "byId"
  /\ LET found == ById(chat[hand[h].msg])
     IN  \/ \E r \in found : Found(h, r)
         \/ /\ found = {}
            /\ hand' = [hand EXCEPT ![h].pc = "byName"]
  /\ UNCHANGED <<rows, accepted, run, import, edits, telegram>>

\* The message of an account that no active row names is skipped.
HandByName(h) ==
  /\ hand[h].pc = "byName"
  /\ LET found == ByName(hand[h].name)
     IN  \/ \E r \in found : Found(h, r)
         \/ /\ found = {}
            /\ hand' = [hand EXCEPT ![h] = IdleHand]
  /\ UNCHANGED <<rows, accepted, run, import, edits, telegram>>

\* The update fails when another row, active or not, has the pair.
HandPatch(h) ==
  LET g == hand[h]
      patched == Patched(g.row, g.copy, chat[g.msg], g.name)
  IN  /\ g.pc = "found"
      /\ IF Unique(patched)
         THEN rows' = patched /\ accepted' = accepted \cup {g.msg}
         ELSE UNCHANGED <<rows, accepted>>
      /\ hand' = [hand EXCEPT ![h] = IdleHand]
      /\ UNCHANGED <<run, import, edits, telegram>>
----------------------------------------------------------------------------
(* The authorization of a reconciliation run *)

\* Of several rows with a key the index keeps the last.
Latest(found) == IF found = {} THEN None ELSE Max(found)

ActiveUsers == [r \in Ids |-> IF r \in Active(rows) THEN rows[r] ELSE None]

\* buildReconciliationAuthorization
RunStart ==
  /\ run.pc = "idle"
  /\ LET users == ActiveUsers
         having(k) == {r \in Active(rows) : k \in {<<users[r].form, users[r].uid>>, <<users[r].form, users[r].name>>}}
     IN  run' = [NoRun EXCEPT !.pc = "started", !.users = users,
                   !.byId = [k \in Forms \X Senders |-> Latest(having(k))],
                   !.byName = [k \in Forms \X Names |-> Latest(having(k))]]
  /\ UNCHANGED <<rows, accepted, hand, import, edits, telegram>>

\* A page is parsed before its first message is handled; a name that was resolved
\* is kept for the sender's later messages.
RunFetch(from) ==
  /\ run.pc = "started"
  /\ \A i \in 1..Len(chat) : from[i] \in SenderName(chat[i])
  /\ \A i, j \in 1..Len(chat) : i < j /\ chat[i] = chat[j] /\ from[i] # None => from[j] = from[i]
  /\ run' = [run EXCEPT !.pc = "reading", !.from = from]
  /\ UNCHANGED <<rows, accepted, hand, import, edits, telegram>>

\* Mutant: the older form of the chat's id is not looked up.
EntryCanonical(index, key) == index[<<"canonical", key>>]
\* The chat's id, then its older form.
Entry(index, key) ==
  IF index[<<"canonical", key>>] # None THEN index[<<"canonical", key>>] ELSE index[<<"legacy", key>>]

matchAuthorizedUser(s, n) ==
  LET byId == Entry(run.byId, s)
  IN  IF byId # None \/ n = None THEN byId ELSE Entry(run.byName, n)

\* Mutant: the entries of the previous identity stay.
IndexOnly(index, old, new, r) == [k \in DOMAIN index |-> IF k = new THEN r ELSE index[k]]
\* unindexAuthorizedUser, then indexAuthorizedUser.
Reindexed(index, old, new, r) ==
  [k \in DOMAIN index |-> IF k = new THEN r ELSE IF k = old THEN None ELSE index[k]]

NoUser(i) == i <= Len(run.from) /\ matchAuthorizedUser(chat[i], run.from[i]) = None

RunPass ==
  /\ run.pc = "reading" /\ NoUser(run.next)
  /\ run' = [run EXCEPT !.next = @ + 1]
  /\ UNCHANGED <<rows, accepted, hand, import, edits, telegram>>

\* The update is by id; the copy takes what it returns.  When it fails, the run leaves the chat.
RunAccept ==
  LET i == run.next
      s == chat[i]
      r == matchAuthorizedUser(s, run.from[i])
      old == run.users[r]
      patched == Patched(r, old, s, run.from[i])
      new == IF Patch(old, old, s, run.from[i]) = old THEN old ELSE [patched[r] EXCEPT !.active = old.active]
  IN  /\ run.pc = "reading" /\ i <= Len(run.from) /\ ~NoUser(i)
      /\ IF Unique(patched)
         THEN /\ rows' = patched /\ accepted' = accepted \cup {i}
              /\ run' = IF new = old THEN [run EXCEPT !.next = @ + 1]
                        ELSE [run EXCEPT !.users[r] = new, !.next = @ + 1,
                                !.byId = Reindexed(@, <<old.form, old.uid>>, <<new.form, new.uid>>, r),
                                !.byName = Reindexed(@, <<old.form, old.name>>, <<new.form, new.name>>, r)]
         ELSE run' = NoRun /\ UNCHANGED <<rows, accepted>>
      /\ UNCHANGED <<hand, import, edits, telegram>>

RunEnd ==
  /\ run.pc = "reading" /\ run.next > Len(run.from)
  /\ run' = NoRun
  /\ UNCHANGED <<rows, accepted, hand, import, edits, telegram>>
----------------------------------------------------------------------------
(* The administrator *)

Written(table) ==
  /\ edits > 0 /\ edits' = edits - 1
  /\ Unique(table) /\ rows' = table
  /\ UNCHANGED <<accepted, hand, run, import, telegram>>

createTarget(r, row) == rows[r] = None /\ Written([rows EXCEPT ![r] = row])

updateTarget(r, row) == rows[r] # None /\ Written([rows EXCEPT ![r] = row])

\* The account that has the username now, if one has.
resolveTargetUsername(n) == {s \in Senders : n # None /\ names[s] = n}

\* Usernames are looked up one by one; who is not found is left for review.
ImportRead(file) ==
  LET holder(e) == resolveTargetUsername(e[2].name)
      known(e) == e[2].uid # None \/ holder(e) # {}
      resolved(e) == IF e[2].uid # None THEN e ELSE <<e[1], [e[2] EXCEPT !.uid = CHOOSE s \in holder(e) : TRUE]>>
  IN  /\ import = <<>> /\ edits > 0 /\ edits' = edits - 1
      /\ import' = [i \in {j \in DOMAIN file : known(file[j])} |-> resolved(file[i])]
      /\ UNCHANGED <<rows, accepted, hand, run, telegram>>

\* Mutant: pairs that other rows have are written over.
NoConflict == FALSE
\* In the transaction: no pair twice, and none that another row has.
ImportConflict ==
  \E i \in DOMAIN import :
    \/ \E j \in (DOMAIN import) \ {i} : Pair(import[i][2]) = Pair(import[j][2])
    \/ \E r \in Ids \ {import[i][1]} : rows[r] # None /\ Pair(rows[r]) = Pair(import[i][2])

ImportWrite ==
  LET upserted(r) == {import[i][2] : i \in {j \in DOMAIN import : import[j][1] = r}}
  IN  /\ import # <<>>
      /\ rows' = IF ImportConflict THEN rows
                 ELSE [r \in Ids |-> IF upserted(r) = {} THEN rows[r] ELSE CHOOSE u \in upserted(r) : TRUE]
      /\ import' = <<>>
      /\ UNCHANGED <<accepted, hand, run, edits, telegram>>
----------------------------------------------------------------------------
Telegram == \E s \in Senders : Post(s) \/ \E n \in Names \cup {None} : Rename(s, n)
Live == \E h \in Handlers : HandTake(h) \/ HandById(h) \/ HandByName(h) \/ HandPatch(h)
Fetched == [1..Len(chat) -> Names \cup {None}]
Reconcile == RunStart \/ (\E from \in Fetched : RunFetch(from)) \/ RunPass \/ RunAccept \/ RunEnd
Administrator ==
  \/ \E r \in Ids, row \in Edits : createTarget(r, row) \/ updateTarget(r, row)
  \/ \E file \in Files : ImportRead(file)
  \/ ImportWrite

Next == Telegram \/ Live \/ Reconcile \/ Administrator

Spec == Init /\ [][Next]_vars

\* Runs come again and go on, and senders are resolved at some time.
FairSpec ==
  /\ Spec /\ WF_vars(Reconcile)
  /\ SF_vars(RunFetch([i \in 1..Len(chat) |-> names[chat[i]]]))
----------------------------------------------------------------------------
(* Properties *)

TypeOK ==
  /\ rows \in Tables /\ Unique(rows)
  /\ names \in [Senders -> Names \cup {None}]
  /\ chat \in Seq(Senders) /\ Len(chat) <= MaxPosts /\ accepted \subseteq 1..Len(chat)
  /\ hand \in [Handlers -> [pc : {"idle", "byId", "byName", "found"}, msg : 0..Len(chat),
                            name : Names \cup {None}, row : Ids \cup {None}, copy : UserTu \cup {None}]]
  /\ run \in [pc : {"idle", "started", "reading"}, users : Tables, byId : [Forms \X Senders -> Ids \cup {None}],
              byName : [Forms \X Names -> Ids \cup {None}], from : Seq(Names \cup {None}), next : 1..MaxPosts + 1]
  /\ \A i \in DOMAIN import : import[i] \in Ids \X UserTu
  /\ edits \in 0..MaxEdits /\ renames \in 0..MaxRenames

\* However many users change their ids, names and chat ids during a run, what the
\* run's maps say of a user is what its copy of the user says.
IndexTrue ==
  \A f \in Forms :
    /\ \A s \in Senders : LET r == run.byId[<<f, s>>]
                          IN  r # None => run.users[r] # None /\ Pair(run.users[r]) = <<s, f>>
    /\ \A n \in Names : LET r == run.byName[<<f, n>>]
                        IN  r # None => run.users[r] # None /\ run.users[r].name = n /\ run.users[r].form = f

\* An active row names the account, by its id or its username.
Registered(s) ==
  \E r \in Active(rows) : rows[r].uid = s \/ (names[s] # None /\ rows[r].name = names[s])

\* A row, or a copy still in use, names one account by its id and bears the username
\* of another.
Misnamed ==
  \E user \in {rows[r] : r \in Ids} \cup {run.users[r] : r \in Ids} \cup {hand[h].copy : h \in Handlers},
     s \in Senders :
    user # None /\ user.uid \notin {None, s} /\ user.name # None /\ names[s] = user.name

\* The administrator gave a row to another account after it was copied: what a message
\* of s fills in then overwrites the edit.
Reassigned(row, copy, s) == row.uid \notin {copy.uid, s} \/ row.name \notin {copy.name, names[s], None}
Overwriting ==
  \/ \E h \in Handlers : hand[h].pc = "found" /\ Reassigned(rows[hand[h].row], hand[h].copy, chat[hand[h].msg])
  \/ /\ run.pc = "reading" /\ run.next <= Len(run.from) /\ ~NoUser(run.next)
     /\ LET r == matchAuthorizedUser(chat[run.next], run.from[run.next])
        IN  Reassigned(rows[r], run.users[r], chat[run.next])

\* Live messages and a run fill in the same rows, from copies of different age,
\* while the administrator edits them: taking a message leaves every account
\* registered that was, as long as no username goes from one account to another, and
\* no row whose copy is still in use.
OthersKept ==
  [][Live \/ RunAccept =>
       (renames = MaxRenames /\ ~Misnamed /\ ~Overwriting => \A s \in Senders : Registered(s) => Registered(s)')]_vars

\* A row that is not active has the pair that a message would give to the row it is
\* matched with.
Clash ==
  \E s \in Senders, q \in Ids :
    /\ rows[q] # None /\ ~rows[q].active /\ Pair(rows[q]) = <<s, "canonical">>
    /\ Registered(s)

\* A message of an account that stays registered is taken in the end, although live
\* messages are lost, names are not always resolved and other messages come before
\* it; provided that no pair stays in the way.
EventuallyAccepted ==
  \A i \in 1..MaxPosts :
    <>[](i <= Len(chat) /\ Registered(chat[i]) /\ ~Clash) => <>(i \in accepted)
=============================================================================
