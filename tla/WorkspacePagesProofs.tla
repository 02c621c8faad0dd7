------------------------ MODULE WorkspacePagesProofs ------------------------
(* Proofs about WorkspacePages. *)
EXTENDS WorkspacePages, TLAPS

-----------------------------------------------------------------------------
(* The inductive invariant. *)

\* What a load was answered is of its workspace.
ListsAreTheirs == \A l \in loads : \A r \in Rows : l.list[r] \in There => Home[r] = l.ws

\* The newest load is of the workspace on screen.
NewestIsHere == \A l \in loads : l.newest => l.ws = workspace

\* With numbers no load of another workspace is shown.
NumbersHelp == page = "agents" => ~torn /\ ~late

ThisWorkspace == torn \/ \A r \in Rows : rows[r] \in There => Home[r] = workspace

\* The server made its rows in every workspace that it answered for, and only in those.
Seeds == page \in {"automations", "agents"} =>
  /\ \A r \in Starters : server[r] # "none" => Home[r] \in seeded
  /\ \A l \in loads : l.stage # "asked" /\ l.answer = "rows" => l.ws \in seeded

\* A load will stop the spinner.
Spins == loading /\ workspace # Null /\ ~late =>
  \E l \in loads : l.ws = workspace /\ (page = "agents" => l.newest)

\* The workspace on screen is loaded when this change is over.
WillLoad(c) ==
  /\ c.ws = workspace /\ c.kind # "run as"
  /\ c.stage = "done" \/ (c.kind = "resume" /\ c.stage \in {"sent", "refused"})

Settled == workspace # Null /\ \A c \in changes : ~WillLoad(c)

\* What is about to be shown for good, and what is shown for good.
LoadsFit ==
  Settled =>
    \A l \in loads : l.newest /\ l.stage # "asked" /\ l.answer = "rows" /\ l.covers =>
      l.list = ListOf(workspace, server)

Loaded ==
  /\ Settled /\ ~failed /\ ~missed
  /\ ~((torn \/ old) /\ page # "agents")
  /\ \A l \in loads : ~l.newest /\ ~(l.ws = workspace /\ l.stage = "reading")

\* The page will be told of the agent that was chosen in this row.
Awaited(r) == field = "agent" /\ \E c \in changes :
  c.kind = "run as" /\ c.stage = "done" /\ c.row = r /\ c.ws = workspace

\* The page shows this row as the server has it, or will when it is told of the agent.
RowFits(r) ==
  \/ rows[r] = ListOf(workspace, server)[r]
  \/ Awaited(r) /\ rows[r] \in There /\ ListOf(workspace, server)[r] \in There

RowsFit == Loaded =>
  /\ \A r \in Rows : RowFits(r)
  /\ page \in {"automations", "agents"} => workspace \in seeded

\* A command that was approved is not offered again.
Approvals == \A c \in changes :
  c.kind = "approve" /\ c.stage = "done" /\ c.row # Null => server[c.row] = "gone"

IInv ==
  /\ TypeOK /\ ListsAreTheirs /\ NewestIsHere /\ NumbersHelp /\ ThisWorkspace
  /\ Seeds /\ Spins /\ LoadsFit /\ RowsFit /\ Approvals

-----------------------------------------------------------------------------
(* What the operators give. *)

LEMMA EmptyType == Empty \in Lists /\ \A r \in Rows : Empty[r] \notin There
BY DEF Empty, Lists, Shown, There

LEMMA ListOfType ==
  ASSUME NEW w, NEW s
  PROVE  /\ ListOf(w, s) \in Lists
         /\ \A r \in Rows : ListOf(w, s)[r] \in There => Home[r] = w
BY DEF ListOf, Lists, Shown, There

\* A list depends on the rows of its workspace.
LEMMA SameList ==
  ASSUME NEW w, NEW s, NEW t, \A r \in Rows : Home[r] = w => s[r] = t[r]
  PROVE  ListOf(w, s) = ListOf(w, t)
BY DEF ListOf

\* Loads that differ in their numbers and in whether they cover the server.
Same(k, l) == k.ws = l.ws /\ k.stage = l.stage /\ k.answer = l.answer /\ k.list = l.list

\* The load that is started.
Started(n, w) == n \in loads' /\ n.ws = w /\ n.stage = "asked" /\ n.list = Empty

\* A load of workspace w that is started now is the newest.
Newest(w, now) == page = "agents" \/ w = now

LEMMA StartLoadIs ==
  ASSUME TypeOK, NEW w \in Workspaces, NEW now, NEW spin \in BOOLEAN, StartLoad(w, now, spin),
         MayLoad(w, now)
  PROVE  /\ loads' \subseteq Load
         /\ \E n : /\ Started(n, w) /\ (n.newest <=> Newest(w, now))
                   /\ \A k \in loads' : k = n \/ \E l \in loads :
                        /\ Same(k, l) /\ k.covers = l.covers
                        /\ k.newest <=> l.newest /\ ~Newest(w, now)
         /\ \A l \in loads : \E k \in loads' :
              /\ Same(k, l) /\ k.covers = l.covers
              /\ k.newest <=> l.newest /\ ~Newest(w, now)
         /\ loading' = (loading \/ spin \/ page # "agents") /\ late' = (w # now)
<1> DEFINE free == {i \in 1 .. MaxLoads : \A l \in loads : l.id # i}
           id == CHOOSE i \in free : TRUE
           n == [id |-> id, newest |-> Newest(w, now), ws |-> w, stage |-> "asked",
                 answer |-> "rows", list |-> Empty, covers |-> TRUE]
           kept(l) == [l EXCEPT !.newest = @ /\ ~Newest(w, now)]
<1>1. /\ free # {} /\ loads' = {kept(l) : l \in loads} \cup {n}
      /\ loading' = (loading \/ spin \/ page # "agents") /\ late' = (w # now)
  BY DEF StartLoad, Newest
<1>2. Newest(w, now) \in BOOLEAN
  BY DEF Newest
<1>3. id \in 1 .. MaxLoads
  BY <1>1
<1> HIDE DEF id
<1>4. n \in Load
  BY <1>2, <1>3, EmptyType DEF Load, Answers
<1>5. ASSUME NEW l \in loads
      PROVE  /\ kept(l) \in Load /\ Same(kept(l), l) /\ kept(l).covers = l.covers
             /\ kept(l).newest <=> l.newest /\ ~Newest(w, now)
  BY <1>2 DEF TypeOK, Load, Same
<1>6. n.ws = w /\ n.stage = "asked" /\ n.list = Empty /\ (n.newest <=> Newest(w, now))
  OBVIOUS
<1> HIDE DEF n, kept
<1>7. Started(n, w) /\ (n.newest <=> Newest(w, now))
  BY <1>1, <1>6 DEF Started
<1>8. \A k \in loads' : k = n \/ \E l \in loads :
        Same(k, l) /\ k.covers = l.covers /\ (k.newest <=> l.newest /\ ~Newest(w, now))
  BY <1>1, <1>5
<1>9. \A l \in loads : \E k \in loads' :
        Same(k, l) /\ k.covers = l.covers /\ (k.newest <=> l.newest /\ ~Newest(w, now))
  <2> SUFFICES ASSUME NEW l \in loads
               PROVE  kept(l) \in loads'
    BY <1>5
  <2> QED
    BY <1>1
<1>10. loads' \subseteq Load
  BY <1>1, <1>4, <1>5
<1> HIDE DEF free, n, kept, id
<1> QED
  BY <1>1, <1>7, <1>8, <1>9, <1>10

LEMMA UncoverIs ==
  ASSUME TypeOK, Uncover
  PROVE  /\ loads' \subseteq Load
         /\ \A k \in loads' : \E l \in loads : Same(k, l) /\ k.newest = l.newest
         /\ \A l \in loads : \E k \in loads' : Same(k, l) /\ k.newest = l.newest
         /\ \A k \in loads' : k.stage # "asked" => ~k.covers
<1> DEFINE cov(l) == [l EXCEPT !.covers = l.stage = "asked"]
<1>1. loads' = {cov(l) : l \in loads}
  BY DEF Uncover
<1>2. ASSUME NEW l \in loads
      PROVE  /\ cov(l) \in Load /\ Same(cov(l), l) /\ cov(l).newest = l.newest
             /\ cov(l).stage # "asked" => ~cov(l).covers
  BY DEF TypeOK, Load, Same
<1> HIDE DEF cov
<1>3. \A k \in loads' : \E l \in loads : k = cov(l)
  BY <1>1
<1>4. \A l \in loads : cov(l) \in loads'
  BY <1>1
<1> QED
  BY <1>1, <1>2, <1>3, <1>4

\* A save is refused, or sets the row if it is one of the field that is followed.
LEMMA EditedIs ==
  ASSUME NEW c, NEW e \in Edited(c)
  PROVE  \/ e = <<"refused", c.row, server>>
         \/ e = <<"done", c.row, server>>
         \/ /\ server[c.row] \in There /\ Sets(c.kind)
            /\ e = <<"done", c.row, [server EXCEPT ![c.row] = c.to]>>
<1> DEFINE s == IF Sets(c.kind) THEN [server EXCEPT ![c.row] = c.to] ELSE server
<1>1. e = IF server[c.row] \in There THEN <<"done", c.row, s>> ELSE <<"refused", c.row, server>>
  BY DEF Edited
<1>2. s = server \/ (Sets(c.kind) /\ s = [server EXCEPT ![c.row] = c.to])
  OBVIOUS
<1> HIDE DEF s
<1> QED
  BY <1>1, <1>2

\* What a change does on the server: to rows of its workspace, unless it was clicked in a row of
\* another one. A row that is gone stays so, and the server's own rows are not made.
LEMMA EffectsAre ==
  ASSUME TypeOK, NEW c \in changes, NEW e \in Effects(c)
  PROVE  /\ e[1] \in {"done", "refused"} /\ e[2] \in Rows \cup {Null}
         /\ e[3] \in [Rows -> Shown \cup {"gone"}]
         /\ e[1] = "refused" => e[3] = server /\ c.kind # "resume"
         /\ \A r \in Rows : e[3][r] # server[r] => Home[r] = c.ws \/ Crossed(e[2], c.ws)
         /\ \A r \in Rows : server[r] = "gone" => e[3][r] = "gone"
         /\ \A r \in Starters : e[3][r] # "none" => server[r] # "none"
<1> DEFINE Goal ==
      /\ e[1] \in {"done", "refused"} /\ e[2] \in Rows \cup {Null}
      /\ e[3] \in [Rows -> Shown \cup {"gone"}]
      /\ e[1] = "refused" => e[3] = server /\ c.kind # "resume"
      /\ \A r \in Rows : e[3][r] # server[r] => Home[r] = c.ws \/ Crossed(e[2], c.ws)
      /\ \A r \in Rows : server[r] = "gone" => e[3][r] = "gone"
      /\ \A r \in Starters : e[3][r] # "none" => server[r] # "none"
<1>1. /\ c \in Change /\ server \in [Rows -> Shown \cup {"gone"}]
      /\ c.row \in Rows \cup {Null} /\ c.to \in There /\ c.ws \in Workspaces /\ c.kind \in Kinds
      /\ Null \notin Rows /\ Starters \subseteq Rows /\ There \subseteq Shown /\ "none" \notin There
      /\ Home \in [Rows -> Workspaces]
  BY WorkspacePagesAssumption DEF TypeOK, Change, Shown, There, Rows
<1>2. CASE c.kind \in {"toggle", "run as"}
  <2>1. e \in Edited(c)
    BY <1>2 DEF Effects
  <2>2. CASE e = <<"refused", c.row, server>> \/ e = <<"done", c.row, server>>
    <3>1. e[2] = c.row /\ e[3] = server /\ e[1] \in {"done", "refused"}
      BY <2>2
    <3> QED
      BY <1>1, <1>2, <3>1
  <2>3. CASE server[c.row] \in There /\ e = <<"done", c.row, [server EXCEPT ![c.row] = c.to]>>
    <3>1. e[1] = "done" /\ e[2] = c.row /\ e[3] = [server EXCEPT ![c.row] = c.to]
      BY <2>3
    <3>2. e[3] \in [Rows -> Shown \cup {"gone"}] /\ \A r \in Rows : e[3][r] # server[r] => r = c.row
      BY <1>1, <3>1
    <3>3. \A r \in Rows : e[3][r] # server[r] => e[3][r] = c.to /\ server[r] \in There
      BY <1>1, <2>3, <3>1
    <3>4. \A r \in Rows : e[3][r] # server[r] => Home[r] = c.ws \/ Crossed(e[2], c.ws)
      BY <1>1, <3>1, <3>2 DEF Crossed
    <3>5. "gone" \notin There
      BY DEF There
    <3> QED
      BY <1>1, <3>1, <3>2, <3>3, <3>4, <3>5
  <2> QED
    BY <2>1, <2>2, <2>3, EditedIs
<1>3. CASE c.kind = "delete"
  <2>1. e \in Deleted(c)
    BY <1>3 DEF Effects
  <2> QED
    BY <1>1, <1>3, <2>1 DEF Deleted, Crossed, There
<1>4. CASE c.kind \in {"approve", "reject"}
  <2>1. e \in Decided(c)
    BY <1>4 DEF Effects
  <2> QED
    BY <1>1, <1>4, <2>1 DEF Decided, Crossed
<1>5. \A r \in Unused(c.ws) : r \in Rows /\ r \notin Starters /\ Home[r] = c.ws /\ server[r] = "none"
  BY WorkspacePagesAssumption DEF Unused, Rows
<1>6. "on" \in Shown
  BY DEF Shown, There
<1>7. ASSUME e \in TaskRun(c)
      PROVE  Goal
  <2>1. CASE e = <<"done", c.row, server>>
    BY <1>1, <2>1
  <2>2. ASSUME NEW r \in Unused(c.ws), e = <<"done", c.row, [server EXCEPT ![r] = "on"]>>
        PROVE  Goal
    BY <1>1, <1>5, <1>6, <2>2
  <2> QED
    BY <1>7, <2>1, <2>2 DEF TaskRun
<1>8. ASSUME e \in Created(c), c.kind = "add"
      PROVE  Goal
  <2>1. CASE e = <<"refused", Null, server>>
    BY <1>1, <1>8, <2>1
  <2>2. ASSUME NEW r \in Unused(c.ws), e = <<"done", r, [server EXCEPT ![r] = "on"]>>
        PROVE  Goal
    BY <1>1, <1>5, <1>6, <2>2
  <2> QED
    BY <1>8, <2>1, <2>2 DEF Created
<1>9. CASE c.kind = "add"
  BY <1>7, <1>8, <1>9 DEF Effects
<1>10. CASE c.kind = "resume"
  BY <1>7, <1>10 DEF Effects
<1>11. CASE c.kind = "run"
  <2>1. e \in Triggered(c)
    BY <1>11 DEF Effects
  <2> QED
    BY <1>1, <1>11, <2>1 DEF Triggered
<1>12. CASE c.kind = "consolidate"
  <2>1. e \in Consolidated(c)
    BY <1>12 DEF Effects
  <2> QED
    BY <1>1, <2>1 DEF Consolidated
<1> QED
  BY <1>1, <1>2, <1>3, <1>4, <1>9, <1>10, <1>11, <1>12 DEF Kinds

\* Reading makes the server's own rows of a workspace once.
LEMMA ServeIs ==
  ASSUME TypeOK, Seeds, NEW w \in Workspaces, Serve(w)
  PROVE  /\ server' \in [Rows -> Shown \cup {"gone"}] /\ seeded \subseteq seeded' /\ seeded' \subseteq Workspaces
         /\ page \in {"automations", "agents"} => w \in seeded'
         /\ \A r \in Rows : server'[r] # server[r] => Home[r] = w /\ w \notin seeded
                                                    /\ page \in {"automations", "agents"}
         /\ \A r \in Rows : server[r] = "gone" => server'[r] = "gone"
         /\ page \in {"automations", "agents"} => \A r \in Starters : server'[r] # "none" => Home[r] \in seeded'
<1>1. Starters \subseteq Rows /\ server \in [Rows -> Shown \cup {"gone"}] /\ "on" \in Shown
  BY DEF TypeOK, Rows, Shown, There
<1>2. CASE page \in {"automations", "agents"}
  <2>1. server' = Seed(w) /\ seeded' = seeded \cup {w}
    BY <1>2 DEF Serve
  <2>2. CASE Seed(w) = server
    BY <1>1, <1>2, <2>1, <2>2 DEF TypeOK, Seeds
  <2>3. CASE Seed(w) = WithStarters(w) /\ w \notin seeded
    <3>1. \A r \in Rows : server'[r] = IF r \in Starters /\ Home[r] = w THEN "on" ELSE server[r]
      BY <2>1, <2>3 DEF WithStarters
    <3>2. server' \in [Rows -> Shown \cup {"gone"}]
      BY <1>1, <2>1, <2>3 DEF WithStarters
    <3>3. \A r \in Starters : Home[r] = w => server[r] = "none"
      BY <1>2, <2>3 DEF Seeds
    <3> QED
      BY <1>1, <1>2, <2>1, <2>3, <3>1, <3>2, <3>3 DEF TypeOK, Seeds
  <2> QED
    BY <2>2, <2>3 DEF Seed
<1>3. CASE page \notin {"automations", "agents"}
  BY <1>1, <1>3 DEF Serve, TypeOK
<1> QED
  BY <1>2, <1>3

-----------------------------------------------------------------------------
(* What keeps the parts of the invariant. *)

\* What a load was answered and for whom.
Kin(k, l) == k.ws = l.ws /\ k.answer = l.answer /\ k.list = l.list /\ k.covers = l.covers

\* Where a load stands for the page.
Stands(k, l) == k.ws = l.ws /\ k.stage = l.stage /\ (k.newest <=> l.newest)

\* The list of the workspace on screen stays, once the server made its own rows.
ListStays ==
  (page \in {"automations", "agents"} => workspace \in seeded) =>
    ListOf(workspace, server') = ListOf(workspace, server)

\* A change that is over leaves a page at rest that was at rest, if no load follows.
LEMMA SettledBefore ==
  ASSUME NEW c, ~WillLoad(c), changes \ {c} \subseteq changes', workspace' = workspace, Settled'
  PROVE  Settled
BY DEF Settled, WillLoad

\* Loads fit that were answered before, or just now.
LEMMA LoadsStay ==
  ASSUME IInv, workspace' = workspace, Settled' => Settled, ListStays,
         \A k \in loads' : k.newest /\ k.stage # "asked" =>
           \/ k.answer = "rows" => k.list = ListOf(workspace, server')
           \/ \E l \in loads : Kin(k, l) /\ l.newest /\ l.stage # "asked"
  PROVE  LoadsFit'
<1> SUFFICES ASSUME Settled', NEW k \in loads', k.newest, k.stage # "asked", k.answer = "rows", k.covers
             PROVE  k.list = ListOf(workspace', server')
  BY DEF LoadsFit
<1>1. CASE k.list = ListOf(workspace, server')
  BY <1>1
<1>2. ASSUME NEW l \in loads, Kin(k, l), l.newest, l.stage # "asked"
      PROVE  k.list = ListOf(workspace, server')
  <2>1. l.list = ListOf(workspace, server) /\ k.list = l.list
    BY <1>2 DEF IInv, LoadsFit, Kin
  <2>2. page \in {"automations", "agents"} => workspace \in seeded
    BY <1>2 DEF IInv, Seeds, NewestIsHere, Kin
  <2> QED
    BY <2>1, <2>2 DEF ListStays
<1> QED
  BY <1>1, <1>2

\* Rows fit that were shown before.
LEMMA RowsStay ==
  ASSUME IInv, UNCHANGED <<page, field, workspace>>, ListStays, seeded \subseteq seeded',
         Loaded' => Loaded /\ rows' = rows,
         \A r \in Rows : Awaited(r) => Awaited(r)'
  PROVE  RowsFit'
BY DEF IInv, RowsFit, RowFits, ListStays

\* Only the answer to the choice itself ends it.
LEMMA AwaitedStays ==
  ASSUME UNCHANGED <<page, field, workspace>>, NEW c, changes \ {c} \subseteq changes',
         c \in changes' \/ c.kind # "run as" \/ c.stage # "done"
  PROVE  \A r \in Rows : Awaited(r) => Awaited(r)'
BY DEF Awaited

\* The page had shown its last load before, too.
LEMMA LoadedBefore ==
  ASSUME UNCHANGED <<page, field, workspace>>, Settled' => Settled, failed => failed', missed => missed',
         page # "agents" /\ (torn \/ old) => torn' \/ old',
         \A l \in loads : l.newest \/ (l.ws = workspace /\ l.stage = "reading") =>
           \E k \in loads' : k.newest \/ (k.ws = workspace /\ k.stage = "reading"),
         Loaded'
  PROVE  Loaded
<1>1. ASSUME NEW l \in loads
      PROVE  ~l.newest /\ ~(l.ws = workspace /\ l.stage = "reading")
  BY DEF Loaded
<1> QED
  BY <1>1 DEF Loaded

\* What the server does behind the page's back is not shown.
LEMMA UnnoticedFits ==
  ASSUME IInv, Unnoticed, UNCHANGED <<page, field, workspace, loading, late>>
  PROVE  /\ missed' \in BOOLEAN /\ loads' \subseteq Load
         /\ ListsAreTheirs' /\ NewestIsHere' /\ Spins' /\ LoadsFit' /\ RowsFit'
         /\ \A k \in loads' : \E l \in loads : Same(k, l)
<1>1. /\ missed' /\ loads' \subseteq Load
      /\ \A k \in loads' : \E l \in loads : Same(k, l) /\ k.newest = l.newest
      /\ \A l \in loads : \E k \in loads' : Same(k, l) /\ k.newest = l.newest
      /\ \A k \in loads' : k.stage # "asked" => ~k.covers
  BY UncoverIs DEF Unnoticed, IInv
<1>2. missed' \in BOOLEAN
  BY DEF Unnoticed
<1>3. ListsAreTheirs' /\ NewestIsHere'
  BY <1>1 DEF IInv, ListsAreTheirs, NewestIsHere, Same
<1>4. Spins'
  BY <1>1 DEF IInv, Spins, Same
<1>5. LoadsFit' /\ RowsFit'
  BY <1>1 DEF LoadsFit, RowsFit, Loaded
<1> QED
  BY <1>1, <1>2, <1>3, <1>4, <1>5

\* A load that is the newest is on its way: nothing else is shown for good before it is here.
LEMMA StartNewest ==
  ASSUME IInv, NEW w \in Workspaces, NEW spin \in BOOLEAN, StartLoad(w, w, spin),
         workspace' = w, UNCHANGED <<page, field, server, seeded>>
  PROVE  /\ loads' \subseteq Load /\ loading' \in BOOLEAN /\ late' = FALSE
         /\ ListsAreTheirs' /\ NewestIsHere' /\ Seeds' /\ Spins' /\ LoadsFit' /\ RowsFit'
<1>1. PICK n : /\ Started(n, w) /\ n.newest
                /\ \A k \in loads' : k = n \/ \E l \in loads : Same(k, l) /\ ~k.newest
  <2>1. MayLoad(w, w) /\ Newest(w, w)
    BY DEF MayLoad, Newest
  <2> QED
    BY <2>1, StartLoadIs DEF IInv
<1>2. loads' \subseteq Load /\ loading' = (loading \/ spin \/ page # "agents") /\ late' = (w # w)
  BY StartLoadIs DEF IInv, MayLoad
<1>3. ListsAreTheirs'
  BY <1>1, EmptyType DEF IInv, ListsAreTheirs, Started, Same
<1>4. NewestIsHere' /\ LoadsFit'
  BY <1>1 DEF NewestIsHere, LoadsFit, Started
<1>5. Seeds'
  BY <1>1 DEF IInv, Seeds, Started, Same
<1>6. Spins'
  BY <1>1 DEF Spins, Started
<1>7. RowsFit'
  BY <1>1 DEF RowsFit, Loaded, Started
<1>8. loading' \in BOOLEAN
  BY <1>2 DEF IInv, TypeOK
<1> QED
  BY <1>2, <1>3, <1>4, <1>5, <1>6, <1>7, <1>8

\* A load of a workspace that had been left leaves the others as they are.
LEMMA StartOther ==
  ASSUME IInv, NEW w \in Workspaces, w # workspace, NEW spin \in BOOLEAN, StartLoad(w, workspace, spin),
         UNCHANGED <<page, field, workspace, server, seeded>>
  PROVE  /\ loads' \subseteq Load /\ loading' \in BOOLEAN /\ late' \in BOOLEAN
         /\ page = "agents" => late' = late
         /\ ListsAreTheirs' /\ NewestIsHere' /\ Seeds' /\ Spins'
         /\ \A k \in loads' : k.newest /\ k.stage # "asked" =>
              \E l \in loads : Kin(k, l) /\ l.newest /\ l.stage # "asked"
         /\ \A l \in loads : \E k \in loads' : Stands(k, l)
<1>1. CASE page = "agents"
  <2>1. UNCHANGED <<loads, loading, late>>
    BY <1>1 DEF StartLoad, MayLoad
  <2> QED
    BY <1>1, <2>1 DEF IInv, TypeOK, ListsAreTheirs, NewestIsHere, Seeds, Spins, Kin, Stands
<1>2. CASE page # "agents"
  <2>1. MayLoad(w, workspace) /\ ~Newest(w, workspace)
    BY <1>2 DEF MayLoad, Newest
  <2>2. PICK n : /\ Started(n, w) /\ ~n.newest
                 /\ \A k \in loads' : k = n \/ \E l \in loads :
                      Same(k, l) /\ k.covers = l.covers /\ (k.newest <=> l.newest)
    BY <2>1, StartLoadIs DEF IInv
  <2>3. \A l \in loads : \E k \in loads' : Same(k, l) /\ (k.newest <=> l.newest)
    BY <2>1, StartLoadIs DEF IInv
  <2>4. loads' \subseteq Load /\ loading' = TRUE /\ late' = TRUE
    BY <1>2, StartLoadIs DEF IInv, MayLoad
  <2>6. ListsAreTheirs'
    BY <2>2, EmptyType DEF IInv, ListsAreTheirs, Started, Same
  <2>7. NewestIsHere'
    BY <2>2 DEF IInv, NewestIsHere, Started, Same
  <2>8. Seeds'
    BY <2>2 DEF IInv, Seeds, Started, Same
  <2>9. Spins'
    BY <2>4 DEF Spins
  <2>10. \A k \in loads' : k.newest /\ k.stage # "asked" =>
           \E l \in loads : Kin(k, l) /\ l.newest /\ l.stage # "asked"
    BY <2>2 DEF Started, Same, Kin
  <2>11. \A l \in loads : \E k \in loads' : Stands(k, l)
    BY <2>3 DEF Same, Stands
  <2> QED
    BY <1>2, <2>4, <2>6, <2>7, <2>8, <2>9, <2>10, <2>11
<1> QED
  BY <1>1, <1>2

-----------------------------------------------------------------------------
(* The page's own steps. *)

\* The page is emptied before another workspace is loaded.
LEMMA SwitchFits == ASSUME IInv, NEW w \in Workspaces, Switch(w) PROVE IInv'
<1>1. /\ loads' \subseteq Load /\ loading' \in BOOLEAN /\ late' = FALSE
      /\ ListsAreTheirs' /\ NewestIsHere' /\ Seeds' /\ Spins' /\ LoadsFit' /\ RowsFit'
  BY StartNewest DEF Switch
<1>2. TypeOK'
  BY <1>1, EmptyType DEF IInv, TypeOK, Switch
<1>3. NumbersHelp' /\ ThisWorkspace'
  BY <1>1, EmptyType DEF Switch, NumbersHelp, ThisWorkspace
<1>4. Approvals'
  BY DEF IInv, Switch, Approvals
<1> QED
  BY <1>1, <1>2, <1>3, <1>4 DEF IInv

\* The list on screen is loaded again.
LEMMA ReloadFits == ASSUME IInv, Refresh \/ Poll PROVE IInv'
<1>1. /\ workspace \in Workspaces /\ StartLoad(workspace, workspace, TRUE)
      /\ UNCHANGED <<page, field, workspace, server, seeded, rows, failed, changes, faults, torn, old, missed>>
  BY DEF IInv, TypeOK, Refresh, Poll
<1>2. /\ loads' \subseteq Load /\ loading' \in BOOLEAN /\ late' = FALSE
      /\ ListsAreTheirs' /\ NewestIsHere' /\ Seeds' /\ Spins' /\ LoadsFit' /\ RowsFit'
  BY <1>1, StartNewest
<1>3. TypeOK' /\ NumbersHelp' /\ ThisWorkspace' /\ Approvals'
  BY <1>1, <1>2 DEF IInv, TypeOK, NumbersHelp, ThisWorkspace, Approvals
<1> QED
  BY <1>2, <1>3 DEF IInv

\* The change that a click asks for.
LEMMA AskedType ==
  ASSUME IInv, NEW kind \in Kinds, NEW r \in Rows \cup {Null}, NEW to \in There, workspace # Null
  PROVE  New(kind, r, to) \in Change /\ New(kind, r, to).kind = kind /\ New(kind, r, to).stage = "sent"
BY DEF New, Change, IInv, TypeOK

\* A change that was asked for says nothing yet.
LEMMA AskFits == ASSUME IInv, NEW c \in Change, c.stage = "sent", c.kind # "resume", Ask(c) PROVE IInv'
<1>1. /\ changes' = changes \cup {c}
      /\ UNCHANGED <<page, field, workspace, server, seeded, faults, rows, loading, failed, loads, torn, late,
                     old, missed>>
  BY DEF Ask, screen
<1>2. TypeOK'
  BY <1>1 DEF IInv, TypeOK
<1>3. ListsAreTheirs' /\ NewestIsHere' /\ NumbersHelp' /\ ThisWorkspace' /\ Seeds' /\ Spins'
  BY <1>1 DEF IInv, ListsAreTheirs, NewestIsHere, NumbersHelp, ThisWorkspace, Seeds, Spins
<1>4. Approvals'
  BY <1>1 DEF IInv, Approvals
<1>5. Settled' => Settled
  BY <1>1 DEF Settled, WillLoad
<1>6. LoadsFit'
  BY <1>1, <1>5 DEF IInv, LoadsFit
<1>7. RowsFit'
  <2>1. Loaded' => Loaded
    BY <1>1, <1>5 DEF Loaded
  <2>2. \A r \in Rows : Awaited(r) => Awaited(r)'
    BY <1>1, AwaitedStays
  <2> QED
    BY <1>1, <2>1, <2>2, RowsStay DEF ListStays
<1> QED
  BY <1>2, <1>3, <1>4, <1>6, <1>7 DEF IInv

\* The buttons of a page ask for a change of a known kind.
LEMMA ButtonKinds ==
  ASSUME page \in Pages
  PROVE  RowButtons[page] \cup PageButtons[page] \subseteq Kinds \ {"resume"}
<1> USE DEF RowButtons, PageButtons, AutomationRow, CommandRow, MemoryRow, AgentCard, NewAutomation,
            NewTask, NewMemory, FindThemes, NewAgent, Kinds
<1>1. CASE page = "automations"
  BY <1>1
<1>2. CASE page = "tasks"
  BY <1>2
<1>3. CASE page = "knowledge"
  BY <1>3
<1>4. CASE page = "agents"
  BY <1>4
<1> QED
  BY <1>1, <1>2, <1>3, <1>4 DEF Pages

LEMMA ClickFits == ASSUME IInv, NEW r \in Rows, Click(r) PROVE IInv'
<1>1. PICK kind \in RowButtons[page] :
        Ask(New(kind, r, IF Sets(kind) THEN Other(rows[r]) ELSE "on"))
  BY DEF Click
<1>2. kind \in Kinds /\ kind # "resume" /\ workspace # Null
  BY <1>1, ButtonKinds DEF IInv, TypeOK, Ask
<1>3. (IF Sets(kind) THEN Other(rows[r]) ELSE "on") \in There
  BY DEF Other, There
<1> QED
  BY <1>1, <1>2, <1>3, AskedType, AskFits

LEMMA PressFits == ASSUME IInv, Press PROVE IInv'
<1>1. PICK kind \in PageButtons[page] : Ask(New(kind, Null, "on"))
  BY DEF Press
<1>2. kind \in Kinds /\ kind # "resume" /\ workspace # Null
  BY <1>1, ButtonKinds DEF IInv, TypeOK, Ask
<1>3. "on" \in There
  BY DEF There
<1> QED
  BY <1>1, <1>2, <1>3, AskedType, AskFits

-----------------------------------------------------------------------------
(* The steps of a load. *)

\* The server answers for the load's workspace, and makes its rows there before.
LEMMA AnswerFits == ASSUME IInv, NEW l \in loads, Answer(l) PROVE IInv'
<1>1. PICK answer \in Answers :
        /\ IF answer = "rows" THEN UNCHANGED faults ELSE Fault
        /\ IF answer \in {"rows", "partly"} THEN Serve(l.ws) ELSE UNCHANGED <<server, seeded>>
        /\ loads' = (loads \ {l}) \cup
                    {[l EXCEPT !.stage = "answered", !.answer = answer,
                               !.list = IF answer \in {"rows", "partly"}
                                        THEN ListOf(l.ws, server') ELSE Empty]}
  BY DEF Answer
<1>2. l.stage = "asked" /\ UNCHANGED <<page, field, workspace, rows, loading, failed, changes, torn, late, old, missed>>
  BY DEF Answer
<1> DEFINE list == IF answer \in {"rows", "partly"} THEN ListOf(l.ws, server') ELSE Empty
           k == [l EXCEPT !.stage = "answered", !.answer = answer, !.list = list]
<1>3. list \in Lists /\ (answer = "rows" => list = ListOf(l.ws, server'))
      /\ \A r \in Rows : list[r] \in There => Home[r] = l.ws
  <2>1. CASE answer \in {"rows", "partly"}
    BY <2>1, ListOfType
  <2>2. CASE answer \notin {"rows", "partly"}
    BY <2>2, EmptyType
  <2> QED
    BY <2>1, <2>2
<1> HIDE DEF list
<1>4. l \in Load
  BY DEF IInv, TypeOK
<1>5. /\ k \in Load /\ k.ws = l.ws /\ k.newest = l.newest /\ k.stage = "answered" /\ k.answer = answer
      /\ k.list = list
  BY <1>3, <1>4 DEF Load
<1>6. loads' = (loads \ {l}) \cup {k}
  BY <1>1 DEF list
<1> HIDE DEF k
<1>7. /\ server' \in [Rows -> Shown \cup {"gone"}] /\ seeded \subseteq seeded' /\ seeded' \subseteq Workspaces
      /\ answer = "rows" /\ page \in {"automations", "agents"} => l.ws \in seeded'
      /\ \A r \in Rows : server'[r] # server[r] => /\ Home[r] = l.ws /\ l.ws \notin seeded
                                                   /\ page \in {"automations", "agents"}
      /\ \A r \in Rows : server[r] = "gone" => server'[r] = "gone"
      /\ page \in {"automations", "agents"} => \A r \in Starters : server'[r] # "none" => Home[r] \in seeded'
  <2>1. CASE answer \in {"rows", "partly"}
    <3>1. l.ws \in Workspaces /\ Serve(l.ws) /\ TypeOK /\ Seeds
      BY <1>1, <1>4, <2>1 DEF Load, IInv
    <3> QED
      BY <3>1, ServeIs
  <2>2. CASE answer \notin {"rows", "partly"}
    BY <1>1, <2>2 DEF IInv, TypeOK, Seeds
  <2> QED
    BY <2>1, <2>2
<1>8. TypeOK'
  <2>1. faults' \in 0 .. MaxFaults
    BY <1>1, WorkspacePagesAssumption DEF IInv, TypeOK, Fault
  <2> QED
    BY <1>2, <1>5, <1>6, <1>7, <2>1 DEF IInv, TypeOK
<1>9. ListsAreTheirs' /\ NewestIsHere'
  BY <1>2, <1>3, <1>5, <1>6 DEF IInv, ListsAreTheirs, NewestIsHere
<1>10. NumbersHelp' /\ ThisWorkspace'
  BY <1>2 DEF IInv, NumbersHelp, ThisWorkspace
<1>11. Approvals'
  BY <1>2, <1>7, WorkspacePagesAssumption DEF IInv, TypeOK, Change, Approvals
<1>12. Seeds'
  BY <1>2, <1>5, <1>6, <1>7 DEF IInv, Seeds
<1>13. Spins'
  BY <1>2, <1>5, <1>6 DEF IInv, Spins
<1>14. ListStays
  BY <1>7, SameList DEF ListStays
<1>15. Settled' => Settled
  BY <1>2 DEF Settled, WillLoad
<1>16. LoadsFit'
  <2>1. ASSUME NEW j \in loads', j.newest, j.stage # "asked"
        PROVE  \/ j.answer = "rows" => j.list = ListOf(workspace, server')
               \/ \E m \in loads : Kin(j, m) /\ m.newest /\ m.stage # "asked"
    BY <1>3, <1>5, <1>6, <2>1 DEF IInv, NewestIsHere, Kin
  <2> QED
    BY <1>2, <1>14, <1>15, <2>1, LoadsStay
<1>17. RowsFit'
  <2>1. \A m \in loads : \E j \in loads' : Stands(j, m) \/ (m = l /\ j.ws = m.ws /\ j.newest = m.newest)
    BY <1>5, <1>6 DEF Stands
  <2>2. \A m \in loads : m.newest \/ (m.ws = workspace /\ m.stage = "reading") =>
          \E j \in loads' : j.newest \/ (j.ws = workspace /\ j.stage = "reading")
    BY <1>2, <2>1 DEF Stands
  <2>3. Loaded' => Loaded
    BY <1>2, <1>15, <2>2, LoadedBefore
  <2> QED
    BY <1>2, <1>7, <1>14, <2>3, RowsStay DEF Awaited
<1> QED
  BY <1>8, <1>9, <1>10, <1>11, <1>12, <1>13, <1>16, <1>17 DEF IInv

\* The response is here, and its workspace was looked at.
LEMMA ArriveFits == ASSUME IInv, NEW l \in loads, Arrive(l) PROVE IInv'
<1>1. /\ page # "agents" /\ l.stage = "answered" /\ late' = (late /\ loading')
      /\ UNCHANGED <<page, field, workspace, server, seeded, rows, changes, faults, torn, old, missed>>
  BY DEF Arrive
<1>2. ListStays /\ (Settled' => Settled)
  BY <1>1 DEF ListStays, Settled, WillLoad
<1>3. NumbersHelp' /\ ThisWorkspace' /\ Approvals'
  BY <1>1 DEF IInv, NumbersHelp, ThisWorkspace, Approvals
<1>4. CASE l.ws = workspace /\ l.answer # "lost"
  <2> DEFINE k == [l EXCEPT !.stage = "reading"]
  <2>1. loads' = (loads \ {l}) \cup {k} /\ failed' = (failed /\ l.answer # "rows") /\ UNCHANGED loading
    BY <1>4 DEF Arrive, IsOnScreen
  <2>2. /\ k \in Load /\ Kin(k, l) /\ k.newest = l.newest /\ k.stage = "reading"
        /\ k.ws = l.ws /\ k.answer = l.answer /\ k.list = l.list
    BY DEF IInv, TypeOK, Load, Kin
  <2> HIDE DEF k
  <2>3. TypeOK'
    BY <1>1, <2>1, <2>2 DEF IInv, TypeOK
  <2>4. ListsAreTheirs' /\ NewestIsHere' /\ Seeds'
    BY <1>1, <2>1, <2>2 DEF IInv, ListsAreTheirs, NewestIsHere, Seeds
  <2>5. Spins'
    BY <1>1, <2>1, <2>2 DEF IInv, Spins
  <2>6. LoadsFit'
    <3>1. ASSUME NEW j \in loads', j.newest, j.stage # "asked"
          PROVE  \E m \in loads : Kin(j, m) /\ m.newest /\ m.stage # "asked"
      BY <1>1, <2>1, <2>2, <3>1 DEF Kin
    <3> QED
      BY <1>1, <1>2, <3>1, LoadsStay
  <2>7. RowsFit'
    BY <1>1, <1>4, <2>1, <2>2 DEF RowsFit, Loaded
  <2> QED
    BY <1>3, <2>3, <2>4, <2>5, <2>6, <2>7 DEF IInv
<1>5. CASE ~(l.ws = workspace /\ l.answer # "lost")
  <2>1. /\ loads' = loads \ {l}
        /\ IF l.ws = workspace THEN failed' = TRUE /\ loading' = FALSE ELSE UNCHANGED <<failed, loading>>
    BY <1>5 DEF Arrive, IsOnScreen
  <2>2. TypeOK'
    BY <1>1, <2>1 DEF IInv, TypeOK
  <2>3. ListsAreTheirs' /\ NewestIsHere' /\ Seeds'
    BY <1>1, <2>1 DEF IInv, ListsAreTheirs, NewestIsHere, Seeds
  <2>4. Spins'
    BY <1>1, <2>1 DEF IInv, Spins
  <2>5. LoadsFit'
    BY <1>1, <1>2, <2>1, LoadsStay DEF Kin
  <2>6. RowsFit'
    <3>1. CASE l.ws = workspace
      BY <2>1, <3>1 DEF RowsFit, Loaded
    <3>2. CASE l.ws # workspace
      <4>1. ~l.newest
        BY <3>2 DEF IInv, NewestIsHere
      <4>2. Loaded' => Loaded
        BY <1>1, <1>2, <2>1, <3>2, <4>1, LoadedBefore
      <4> QED
        BY <1>1, <1>2, <4>2, RowsStay DEF Awaited
    <3> QED
      BY <3>1, <3>2
  <2> QED
    BY <1>3, <2>2, <2>3, <2>4, <2>5, <2>6 DEF IInv
<1> QED
  BY <1>4, <1>5

\* The body is shown without another look at the workspace: it fits unless the page is torn, the
\* load is not the newest, or it does not cover the server any more.
LEMMA FinishFits == ASSUME IInv, NEW l \in loads, Finish(l) PROVE IInv'
<1>1. /\ page # "agents" /\ l.stage = "reading" /\ loads' = loads \ {l}
      /\ loading' = (loading /\ l.ws # workspace) /\ late' = (late /\ loading')
      /\ UNCHANGED <<page, field, workspace, server, seeded, changes>>
  BY DEF Finish, IsOnScreen
<1>2. ListStays /\ (Settled' => Settled)
  BY <1>1 DEF ListStays, Settled, WillLoad
<1>3. \/ /\ failed' = (failed \/ l.answer # "rows") /\ torn' = (l.ws # workspace \/ (torn /\ l.answer = "refused"))
         /\ \/ l.answer = "refused" /\ UNCHANGED <<rows, old, missed>>
            \/ /\ l.answer # "refused"
               /\ rows' = l.list /\ old' = ~l.newest /\ missed' = ~l.covers
         /\ UNCHANGED faults
      \/ Fault /\ failed' = (failed \/ l.ws = workspace) /\ UNCHANGED <<rows, torn, old, missed>>
  BY DEF Finish, IsOnScreen
<1>4. l \in Load
  BY DEF IInv, TypeOK
<1>5. TypeOK'
  <2>1. faults' \in 0 .. MaxFaults
    BY <1>3, WorkspacePagesAssumption DEF IInv, TypeOK, Fault
  <2>2. rows' \in Lists
    BY <1>3, <1>4 DEF IInv, TypeOK, Load
  <2>3. failed' \in BOOLEAN /\ torn' \in BOOLEAN /\ old' \in BOOLEAN /\ missed' \in BOOLEAN
    BY <1>3 DEF IInv, TypeOK
  <2>4. loading' \in BOOLEAN /\ late' \in BOOLEAN
    BY <1>1 DEF IInv, TypeOK
  <2> QED
    BY <1>1, <2>1, <2>2, <2>3, <2>4 DEF IInv, TypeOK
<1>6. ListsAreTheirs' /\ NewestIsHere' /\ NumbersHelp' /\ Seeds' /\ Approvals'
  BY <1>1 DEF IInv, ListsAreTheirs, NewestIsHere, NumbersHelp, Seeds, Approvals
<1>7. ThisWorkspace'
  BY <1>1, <1>3 DEF IInv, ThisWorkspace, ListsAreTheirs
<1>8. Spins'
  BY <1>1 DEF IInv, Spins
<1>9. LoadsFit'
  BY <1>1, <1>2, LoadsStay DEF Kin
<1>10. RowsFit'
  <2> SUFFICES ASSUME Loaded' PROVE RowsFit'
    BY DEF RowsFit
  <2>1. CASE l.answer = "rows" /\ rows' = l.list /\ old' = ~l.newest /\ missed' = ~l.covers /\ torn' = (l.ws # workspace)
    <3>1. Settled' /\ l.covers /\ l.newest /\ l.ws = workspace
      BY <1>1, <1>4, <2>1 DEF Loaded, Load
    <3>2. l.list = ListOf(workspace, server)
      BY <1>1, <1>2, <2>1, <3>1 DEF IInv, LoadsFit
    <3>3. page \in {"automations", "agents"} => workspace \in seeded
      BY <1>1, <2>1, <3>1 DEF IInv, Seeds
    <3> QED
      BY <1>1, <2>1, <3>2, <3>3 DEF RowsFit, RowFits
  <2>2. CASE failed' = (failed \/ l.ws = workspace) /\ UNCHANGED <<rows, torn, old, missed>>
    <3>1. l.ws # workspace /\ ~l.newest
      BY <2>2 DEF Loaded, IInv, NewestIsHere
    <3>2. Loaded
      BY <1>1, <1>2, <2>2, <3>1, LoadedBefore
    <3> QED
      BY <1>1, <1>2, <2>2, <3>2, RowsStay DEF Awaited
  <2>3. CASE failed' = (failed \/ l.answer # "rows") /\ l.answer # "rows"
    BY <2>3 DEF Loaded
  <2> QED
    BY <1>3, <2>1, <2>2, <2>3
<1> QED
  BY <1>5, <1>6, <1>7, <1>8, <1>9, <1>10 DEF IInv

\* The Agents page takes the newest load of its workspace and nothing else.
LEMMA TakeFits == ASSUME IInv, NEW l \in loads, Take(l) PROVE IInv'
<1>1. /\ page = "agents" /\ l.stage = "answered" /\ loads' = loads \ {l} /\ late' = (late /\ loading')
      /\ UNCHANGED <<page, field, workspace, server, seeded, changes, faults>>
  BY DEF Take
<1>2. ListStays /\ (Settled' => Settled)
  BY <1>1 DEF ListStays, Settled, WillLoad
<1>3. l \in Load
  BY DEF IInv, TypeOK
<1>4. ListsAreTheirs' /\ NewestIsHere' /\ Seeds' /\ Approvals'
  BY <1>1 DEF IInv, ListsAreTheirs, NewestIsHere, Seeds, Approvals
<1>5. LoadsFit'
  BY <1>1, <1>2, LoadsStay DEF Kin
<1>6. CASE Outdated(l)
  <2>1. ~(l.newest /\ l.ws = workspace) /\ UNCHANGED <<rows, failed, loading, torn, old, missed>>
    BY <1>6 DEF Take, Outdated
  <2>2. ~l.newest
    BY <2>1 DEF IInv, NewestIsHere
  <2>3. TypeOK' /\ NumbersHelp' /\ ThisWorkspace' /\ Spins'
    BY <1>1, <2>1, <2>2 DEF IInv, TypeOK, NumbersHelp, ThisWorkspace, Spins
  <2>4. Loaded' => Loaded
    BY <1>1, <1>2, <2>1, <2>2, LoadedBefore
  <2>5. RowsFit'
    BY <1>1, <1>2, <2>1, <2>4, RowsStay DEF Awaited
  <2> QED
    BY <1>4, <1>5, <2>3, <2>5 DEF IInv
<1>7. CASE ~Outdated(l)
  <2>1. /\ l.ws = workspace /\ l.newest
        /\ loading' = FALSE /\ failed' = (l.answer # "rows") /\ torn' = FALSE
        /\ \/ l.answer = "rows" /\ rows' = l.list /\ old' = ~l.newest /\ missed' = ~l.covers
           \/ l.answer # "rows" /\ UNCHANGED <<rows, old, missed>>
    BY <1>7 DEF Take, Outdated, IsOnScreen
  <2>2. TypeOK'
    BY <1>1, <1>3, <2>1 DEF IInv, TypeOK, Load
  <2>3. NumbersHelp' /\ Spins'
    BY <1>1, <2>1 DEF IInv, NumbersHelp, Spins
  <2>4. ThisWorkspace'
    BY <1>1, <2>1 DEF IInv, ThisWorkspace, ListsAreTheirs, NumbersHelp
  <2>5. RowsFit'
    <3> SUFFICES ASSUME Loaded' PROVE RowsFit'
      BY DEF RowsFit
    <3>1. Settled' /\ l.covers /\ l.answer = "rows" /\ rows' = l.list
      BY <1>3, <2>1 DEF Loaded, Load
    <3>2. l.list = ListOf(workspace, server)
      BY <1>1, <1>2, <2>1, <3>1 DEF IInv, LoadsFit
    <3>3. workspace \in seeded
      BY <1>1, <2>1, <3>1 DEF IInv, Seeds
    <3> QED
      BY <1>1, <3>1, <3>2, <3>3 DEF RowsFit, RowFits
  <2> QED
    BY <1>4, <1>5, <2>2, <2>3, <2>4, <2>5 DEF IInv
<1> QED
  BY <1>6, <1>7

-----------------------------------------------------------------------------
(* The steps of a change. *)

\* What the page makes of its rows when a change is done.
LEMMA ApplyIs ==
  ASSUME TypeOK, NEW c \in changes
  PROVE  /\ Apply(c) \in Lists
         /\ \A r \in Rows : Apply(c)[r] \in There => rows[r] \in There \/ Home[r] = workspace
<1>1. rows \in Lists /\ c.to \in There /\ There \subseteq Shown /\ "none" \in Shown /\ "none" \notin There
  BY DEF TypeOK, Change, Shown, There
<1>2. Toggled(c) \in Lists /\ \A r \in Rows : Toggled(c)[r] \in There => rows[r] \in There
  BY <1>1 DEF Toggled, Lists
<1>3. Removed(c) \in Lists /\ \A r \in Rows : Removed(c)[r] \in There => rows[r] \in There
  BY <1>1 DEF Removed, Lists
<1>4. Saved(c) \in Lists /\ \A r \in Rows : Saved(c)[r] \in There => rows[r] \in There \/ Home[r] = workspace
  BY <1>1 DEF Saved, Lists
<1>5. Apply(c) \in {Toggled(c), Removed(c), Saved(c), rows}
  BY DEF Apply
<1> QED
  BY <1>1, <1>2, <1>3, <1>4, <1>5

\* A change of another workspace, or of a row that is gone, changes nothing on a page that fits.
LEMMA ApplySame ==
  ASSUME IInv, NEW c \in changes, \A r \in Rows : RowFits(r),
         \/ c.row = Null
         \/ Home[c.row] # workspace
         \/ Removed(c) = Apply(c) /\ server[c.row] = "gone"
  PROVE  Apply(c) = rows
<1>1. /\ rows \in Lists /\ c.row \in Rows \cup {Null} /\ Null \notin Rows
      /\ "gone" \notin There /\ "none" \notin There
  BY WorkspacePagesAssumption DEF IInv, TypeOK, Change, There
<1>2. Apply(c) \in {Toggled(c), Removed(c), Saved(c), rows}
  BY DEF Apply
<1>3. CASE c.row = Null
  BY <1>1, <1>2, <1>3 DEF Toggled, Removed, Saved, Lists
<1>4. CASE c.row # Null /\ Home[c.row] # workspace
  <2>1. rows[c.row] = "none"
    BY <1>1, <1>4 DEF ListOf, RowFits
  <2> QED
    BY <1>1, <1>2, <1>4, <2>1 DEF Toggled, Removed, Saved, Lists
<1>5. CASE c.row # Null /\ Removed(c) = Apply(c) /\ server[c.row] = "gone"
  <2>1. rows[c.row] = "none"
    BY <1>1, <1>5 DEF ListOf, RowFits
  <2> QED
    BY <1>1, <1>5, <2>1 DEF Removed, Lists
<1> QED
  BY <1>3, <1>4, <1>5

\* The server does what was asked for: a list that is on screen or on its way stays right, or the
\* page will load, or it can't know.
LEMMA ProcessFits == ASSUME IInv, NEW c \in changes, Process(c) PROVE IInv'
<1>1. PICK e \in Effects(c) :
        /\ changes' = (changes \ {c}) \cup {[c EXCEPT !.stage = e[1], !.row = e[2]]}
        /\ server' = e[3]
        /\ \/ Crossed(e[2], c.ws) /\ Unnoticed
           \/ /\ ~Crossed(e[2], c.ws) /\ UNCHANGED missed
              /\ IF c.kind = "run as" /\ e[3] # server THEN Uncover ELSE UNCHANGED loads
  BY DEF Process
<1>2. /\ c.stage = "sent"
      /\ UNCHANGED <<page, field, workspace, seeded, rows, loading, failed, faults, torn, late, old>>
  BY DEF Process
<1>3. /\ e[1] \in {"done", "refused"} /\ e[2] \in Rows \cup {Null}
      /\ e[3] \in [Rows -> Shown \cup {"gone"}]
      /\ e[1] = "refused" => e[3] = server /\ c.kind # "resume"
      /\ \A r \in Rows : e[3][r] # server[r] => Home[r] = c.ws \/ Crossed(e[2], c.ws)
      /\ \A r \in Rows : server[r] = "gone" => e[3][r] = "gone"
      /\ \A r \in Starters : e[3][r] # "none" => server[r] # "none"
  BY EffectsAre DEF IInv
<1> DEFINE d == [c EXCEPT !.stage = e[1], !.row = e[2]]
<1>4. d \in Change /\ d.kind = c.kind /\ d.ws = c.ws /\ d.stage = e[1] /\ d.row = e[2]
  BY <1>3 DEF IInv, TypeOK, Change
<1>5. changes' = (changes \ {c}) \cup {d}
  BY <1>1
<1> HIDE DEF d
<1>6. /\ loads' \subseteq Load /\ missed' \in BOOLEAN /\ ListsAreTheirs' /\ NewestIsHere' /\ Spins'
      /\ \A k \in loads' : \E l \in loads : Same(k, l)
  <2>1. CASE Crossed(e[2], c.ws)
    BY <1>1, <1>2, <2>1, UnnoticedFits
  <2>2. CASE ~Crossed(e[2], c.ws) /\ Uncover
    <3>1. /\ loads' \subseteq Load
          /\ \A k \in loads' : \E l \in loads : Same(k, l) /\ k.newest = l.newest
          /\ \A l \in loads : \E k \in loads' : Same(k, l) /\ k.newest = l.newest
      BY <2>2, UncoverIs DEF IInv
    <3>2. ListsAreTheirs' /\ NewestIsHere'
      BY <1>2, <3>1 DEF IInv, ListsAreTheirs, NewestIsHere, Same
    <3>3. Spins'
      BY <1>2, <3>1 DEF IInv, Spins, Same
    <3> QED
      BY <1>1, <2>2, <3>1, <3>2, <3>3 DEF IInv, TypeOK
  <2>3. CASE ~Crossed(e[2], c.ws) /\ UNCHANGED loads
    BY <1>1, <1>2, <2>3 DEF IInv, TypeOK, ListsAreTheirs, NewestIsHere, Spins, Same
  <2> QED
    BY <1>1, <2>1, <2>2, <2>3
<1>7. TypeOK'
  BY <1>1, <1>2, <1>3, <1>4, <1>5, <1>6 DEF IInv, TypeOK
<1>8. NumbersHelp' /\ ThisWorkspace'
  BY <1>2 DEF IInv, NumbersHelp, ThisWorkspace
<1>9. Seeds'
  BY <1>1, <1>2, <1>3, <1>6 DEF IInv, Seeds, Same
<1>10. Approvals'
  <2>1. ASSUME c.kind = "approve", e[1] = "done", e[2] # Null
        PROVE  e[3][e[2]] = "gone"
    <3>1. e \in Decided(c)
      BY <2>1 DEF Effects
    <3>2. e = <<"done", c.row, [server EXCEPT ![c.row] = "gone"]>>
      BY <2>1, <3>1 DEF Decided
    <3> QED
      BY <1>3, <2>1, <3>2 DEF IInv, TypeOK
  <2> QED
    BY <1>1, <1>3, <1>4, <1>5, <2>1, WorkspacePagesAssumption DEF IInv, TypeOK, Change, Approvals
<1>11. LoadsFit' /\ RowsFit'
  <2>1. CASE Crossed(e[2], c.ws)
    BY <1>1, <1>2, <2>1, UnnoticedFits
  <2>2. CASE ~Crossed(e[2], c.ws) /\ ~(c.kind = "run as" /\ e[3] # server)
    <3>1. UNCHANGED <<loads, missed>>
      BY <1>1, <2>2
    <3>2. ASSUME Settled'
          PROVE  Settled /\ ListStays
      <4>1. ~WillLoad(d)'
        BY <1>5, <3>2 DEF Settled
      <4>2. ~WillLoad(c)
        BY <1>2, <1>3, <1>4, <4>1 DEF WillLoad
      <4>3. Settled
        BY <1>2, <1>5, <3>2, <4>2, SettledBefore
      <4>4. c.ws # workspace \/ e[3] = server
        BY <1>2, <1>3, <1>4, <2>2, <4>1 DEF WillLoad
      <4>5. \A r \in Rows : Home[r] = workspace => server'[r] = server[r]
        BY <1>1, <1>3, <2>2, <4>4
      <4> QED
        BY <4>3, <4>5, SameList DEF ListStays
    <3>3. LoadsFit'
      <4> SUFFICES ASSUME Settled' PROVE LoadsFit'
        BY DEF LoadsFit
      <4> QED
        BY <1>2, <3>1, <3>2, LoadsStay DEF Kin
    <3>4. RowsFit'
      <4> SUFFICES ASSUME Loaded' PROVE RowsFit'
        BY DEF RowsFit
      <4>1. Settled /\ ListStays
        BY <3>2 DEF Loaded
      <4>2. Loaded
        BY <1>2, <3>1, <4>1 DEF Loaded
      <4>3. \A r \in Rows : Awaited(r) => Awaited(r)'
        BY <1>2, <1>5, AwaitedStays
      <4> QED
        BY <1>2, <4>1, <4>2, <4>3, RowsStay
    <3> QED
      BY <3>3, <3>4
  <2>3. CASE ~Crossed(e[2], c.ws) /\ c.kind = "run as" /\ e[3] # server
    <3>1. /\ \A k \in loads' : \E l \in loads : Same(k, l) /\ k.newest = l.newest
          /\ \A l \in loads : \E k \in loads' : Same(k, l) /\ k.newest = l.newest
          /\ \A k \in loads' : k.stage # "asked" => ~k.covers
          /\ UNCHANGED missed
      BY <1>1, <2>3, UncoverIs DEF IInv
    <3>2. e \in Edited(c) /\ e[3] # server
      BY <2>3 DEF Effects
    <3>3. /\ server[c.row] \in There /\ server' = [server EXCEPT ![c.row] = c.to]
          /\ e[1] = "done" /\ e[2] = c.row /\ Sets(c.kind)
      <4>1. e = <<"done", c.row, [server EXCEPT ![c.row] = c.to]>> /\ server[c.row] \in There /\ Sets(c.kind)
        BY <3>2, EditedIs
      <4> QED
        BY <1>1, <4>1
    <3>4. field = "agent"
      BY <2>3, <3>3 DEF Sets
    <3>5. c.row \in Rows /\ Home[c.row] = c.ws /\ c.to \in There
      <4>1. server \in [Rows -> Shown \cup {"gone"}] /\ c.row \in Rows \cup {Null} /\ c.to \in There
        BY DEF IInv, TypeOK, Change
      <4>2. c.row # Null
        <5> SUFFICES ASSUME c.row = Null PROVE FALSE
          OBVIOUS
        <5>1. c.row \notin Rows
          BY WorkspacePagesAssumption
        <5>2. [server EXCEPT ![c.row] = c.to] = server
          BY <4>1, <5>1
        <5>3. server' = e[3]
          BY <1>1
        <5> QED
          BY <2>3, <3>3, <5>2, <5>3
      <4> QED
        BY <2>3, <3>3, <4>1, <4>2 DEF Crossed
    <3>6. LoadsFit'
      BY <3>1 DEF LoadsFit
    <3>7. RowsFit'
      <4> SUFFICES ASSUME Loaded' PROVE RowsFit'
        BY DEF RowsFit
      <4>1. ~WillLoad(c)
        BY <2>3 DEF WillLoad
      <4>2. Settled
        BY <1>2, <1>5, <4>1, SettledBefore DEF Loaded
      <4>3. Loaded
        BY <1>2, <3>1, <4>2, LoadedBefore DEF Same
      <4>4. \A r \in Rows : Awaited(r) => Awaited(r)'
        BY <1>2, <1>5, AwaitedStays
      <4>5. ASSUME NEW r \in Rows, r # c.row \/ Home[r] # workspace
            PROVE  RowFits(r)'
        <5>1. ListOf(workspace, server')[r] = ListOf(workspace, server)[r]
          BY <3>3, <4>5 DEF ListOf, IInv, TypeOK
        <5> QED
          BY <1>2, <4>3, <4>4, <5>1 DEF IInv, RowsFit, RowFits
      <4>6. ASSUME Home[c.row] = workspace
            PROVE  RowFits(c.row)'
        <5>1. ListOf(workspace, server)[c.row] \in There /\ ListOf(workspace, server')[c.row] \in There
          BY <3>3, <3>5, <4>6 DEF ListOf, IInv, TypeOK
        <5>2. rows[c.row] \in There
          BY <3>5, <4>3, <5>1 DEF IInv, RowsFit, RowFits
        <5>3. Awaited(c.row)'
          BY <1>2, <1>4, <1>5, <2>3, <3>3, <3>4, <3>5, <4>6 DEF Awaited
        <5> QED
          BY <1>2, <5>1, <5>2, <5>3 DEF RowFits
      <4> QED
        BY <1>2, <3>5, <4>3, <4>5, <4>6 DEF IInv, RowsFit
    <3> QED
      BY <3>6, <3>7
  <2> QED
    BY <2>1, <2>2, <2>3
<1> QED
  BY <1>6, <1>7, <1>8, <1>9, <1>10, <1>11 DEF IInv

\* Without an answer the page can't know, except when the server did nothing.
LEMMA LoseFits == ASSUME IInv, NEW c \in changes, Lose(c) PROVE IInv'
<1>1. PICK stage \in {"refused", "lost"} :
        /\ changes' = (changes \ {c}) \cup {[c EXCEPT !.stage = stage]}
        /\ \/ Unnoticed
           \/ /\ c.stage = "sent" /\ ~(c.kind = "resume" /\ stage = "lost")
              /\ UNCHANGED <<loads, missed>>
  BY DEF Lose, Failures
<1>2. /\ faults' \in 0 .. MaxFaults
      /\ UNCHANGED <<page, field, workspace, server, seeded, rows, loading, failed, torn, late, old>>
  BY WorkspacePagesAssumption DEF Lose, Fault, IInv, TypeOK
<1> DEFINE d == [c EXCEPT !.stage = stage]
<1>3. d \in Change /\ d.kind = c.kind /\ d.ws = c.ws /\ d.stage = stage /\ d.row = c.row
  BY DEF IInv, TypeOK, Change
<1>4. changes' = (changes \ {c}) \cup {d}
  BY <1>1
<1> HIDE DEF d
<1>5. NumbersHelp' /\ ThisWorkspace' /\ Approvals'
  BY <1>2, <1>3, <1>4 DEF IInv, NumbersHelp, ThisWorkspace, Approvals
<1>6. CASE Unnoticed
  <2>1. /\ missed' \in BOOLEAN /\ loads' \subseteq Load
        /\ ListsAreTheirs' /\ NewestIsHere' /\ Spins' /\ LoadsFit' /\ RowsFit'
        /\ \A k \in loads' : \E l \in loads : Same(k, l)
    BY <1>2, <1>6, UnnoticedFits
  <2>2. TypeOK'
    BY <1>2, <1>3, <1>4, <2>1 DEF IInv, TypeOK
  <2>3. Seeds'
    BY <1>2, <2>1 DEF IInv, Seeds, Same
  <2> QED
    BY <1>5, <2>1, <2>2, <2>3 DEF IInv
<1>7. CASE /\ c.stage = "sent" /\ ~(c.kind = "resume" /\ stage = "lost")
           /\ UNCHANGED <<loads, missed>>
  <2>1. TypeOK'
    BY <1>2, <1>3, <1>4, <1>7 DEF IInv, TypeOK
  <2>2. ListsAreTheirs' /\ NewestIsHere' /\ Seeds' /\ Spins'
    BY <1>2, <1>7 DEF IInv, ListsAreTheirs, NewestIsHere, Seeds, Spins
  <2>3. ASSUME Settled'
        PROVE  Settled
    <3>1. ~WillLoad(d)'
      BY <1>4, <2>3 DEF Settled
    <3>2. ~WillLoad(c)
      BY <1>2, <1>3, <1>7, <3>1 DEF WillLoad
    <3> QED
      BY <1>2, <1>4, <2>3, <3>2, SettledBefore
  <2>4. LoadsFit'
    BY <1>2, <1>7, <2>3 DEF IInv, LoadsFit
  <2>5. RowsFit'
    <3>1. Loaded' => Loaded
      BY <1>2, <1>7, <2>3 DEF Loaded
    <3>2. \A r \in Rows : Awaited(r) => Awaited(r)'
      BY <1>2, <1>4, <1>7, AwaitedStays
    <3> QED
      BY <1>2, <3>1, <3>2, RowsStay DEF ListStays
  <2> QED
    BY <1>5, <2>1, <2>2, <2>4, <2>5 DEF IInv
<1> QED
  BY <1>1, <1>6, <1>7

\* What another tab does is not known to the page; the server's own rows are not made there.
LEMMA ElsewhereFits == ASSUME IInv, NEW r \in Rows, Elsewhere(r) PROVE IInv'
<1>1. PICK to \in There \cup {"gone"} :
        /\ IF server[r] = "none" THEN r \in Others /\ to = "on" ELSE server[r] # "gone"
        /\ server' = [server EXCEPT ![r] = to]
  BY DEF Elsewhere
<1>2. /\ Unnoticed /\ faults' \in 0 .. MaxFaults
      /\ UNCHANGED <<page, field, workspace, seeded, rows, loading, failed, changes, torn, late, old>>
  BY WorkspacePagesAssumption DEF Elsewhere, Fault, IInv, TypeOK
<1>3. /\ missed' \in BOOLEAN /\ loads' \subseteq Load
      /\ ListsAreTheirs' /\ NewestIsHere' /\ Spins' /\ LoadsFit' /\ RowsFit'
      /\ \A k \in loads' : \E l \in loads : Same(k, l)
  BY <1>2, UnnoticedFits
<1>4. /\ server' \in [Rows -> Shown \cup {"gone"}]
      /\ \A s \in Rows : server[s] = "gone" => server'[s] = "gone"
      /\ \A s \in Starters : server'[s] # "none" => server[s] # "none"
  BY <1>1, WorkspacePagesAssumption DEF IInv, TypeOK, Shown, Rows
<1>5. TypeOK'
  BY <1>2, <1>3, <1>4 DEF IInv, TypeOK
<1>6. NumbersHelp' /\ ThisWorkspace'
  BY <1>2 DEF IInv, NumbersHelp, ThisWorkspace
<1>7. Approvals'
  BY <1>2, <1>4, WorkspacePagesAssumption DEF IInv, TypeOK, Change, Approvals
<1>8. Seeds'
  BY <1>2, <1>3, <1>4 DEF IInv, Seeds, Same
<1> QED
  BY <1>3, <1>5, <1>6, <1>7, <1>8 DEF IInv

\* A change that was done is shown at once, and the list is loaded.
LEMMA DoneFits == ASSUME IInv, NEW c \in changes, Done(c) PROVE IInv'
<1>1. /\ c.kind # "run as" /\ rows' = Apply(c) /\ changes' = changes \ {c} /\ StartLoad(c.ws, workspace, FALSE)
      /\ missed' = (missed \/ Crossed(c.row, c.ws))
      /\ UNCHANGED <<page, field, workspace, server, seeded, failed, faults, torn, old>>
  BY DEF Done
<1>2. /\ rows' \in Lists
      /\ \A r \in Rows : rows'[r] \in There => rows[r] \in There \/ Home[r] = workspace
  BY <1>1, ApplyIs DEF IInv
<1>3. c.ws \in Workspaces /\ missed' \in BOOLEAN
  BY <1>1 DEF IInv, TypeOK, Change, Crossed
<1>4. ThisWorkspace' /\ Approvals'
  BY <1>1, <1>2 DEF IInv, ThisWorkspace, Approvals
<1>5. CASE c.ws = workspace
  <2>1. /\ loads' \subseteq Load /\ loading' \in BOOLEAN /\ late' = FALSE
        /\ ListsAreTheirs' /\ NewestIsHere' /\ Seeds' /\ Spins' /\ LoadsFit' /\ RowsFit'
    BY <1>1, <1>3, <1>5, StartNewest
  <2>2. TypeOK' /\ NumbersHelp'
    BY <1>1, <1>2, <1>3, <2>1 DEF IInv, TypeOK, NumbersHelp
  <2> QED
    BY <1>4, <2>1, <2>2 DEF IInv
<1>6. CASE c.ws # workspace
  <2>1. /\ loads' \subseteq Load /\ loading' \in BOOLEAN /\ late' \in BOOLEAN
        /\ page = "agents" => late' = late
        /\ ListsAreTheirs' /\ NewestIsHere' /\ Seeds' /\ Spins'
        /\ \A k \in loads' : k.newest /\ k.stage # "asked" =>
             \E l \in loads : Kin(k, l) /\ l.newest /\ l.stage # "asked"
        /\ \A l \in loads : \E k \in loads' : Stands(k, l)
    BY <1>1, <1>3, <1>6, StartOther
  <2>2. TypeOK' /\ NumbersHelp'
    BY <1>1, <1>2, <1>3, <2>1 DEF IInv, TypeOK, NumbersHelp
  <2>3. ListStays /\ (Settled' => Settled)
    BY <1>1, <1>6, SettledBefore DEF ListStays, WillLoad
  <2>4. LoadsFit'
    BY <1>1, <2>1, <2>3, LoadsStay
  <2>5. RowsFit'
    <3> SUFFICES ASSUME Loaded' PROVE RowsFit'
      BY DEF RowsFit
    <3>1. ~Crossed(c.row, c.ws)
      BY <1>1 DEF Loaded
    <3>2. Loaded
      BY <1>1, <2>1, <2>3, LoadedBefore DEF Stands
    <3>3. rows' = rows
      <4>1. \A r \in Rows : RowFits(r)
        BY <3>2 DEF IInv, RowsFit
      <4> QED
        BY <1>1, <1>6, <3>1, <4>1, ApplySame DEF Crossed
    <3>4. \A r \in Rows : Awaited(r) => Awaited(r)'
      BY <1>1, AwaitedStays
    <3> QED
      BY <1>1, <2>3, <3>2, <3>3, <3>4, RowsStay
  <2> QED
    BY <1>4, <2>1, <2>2, <2>4, <2>5 DEF IInv
<1> QED
  BY <1>5, <1>6

\* An approved command leaves the page; the list is loaded when its run was answered.
LEMMA ApprovedFits == ASSUME IInv, NEW c \in changes, Approved(c) PROVE IInv'
<1> DEFINE d == [c EXCEPT !.kind = "resume", !.stage = "sent"]
<1>1. /\ c.stage = "done" /\ c.kind = "approve" /\ rows' = Apply(c)
      /\ changes' = (changes \ {c}) \cup {d}
      /\ UNCHANGED <<page, field, workspace, server, seeded, loading, failed, loads, faults, torn, late, old, missed>>
  BY DEF Approved
<1>2. d \in Change /\ d.kind = "resume" /\ d.ws = c.ws /\ d.stage = "sent"
  BY DEF IInv, TypeOK, Change, Kinds
<1> HIDE DEF d
<1>3. /\ rows' \in Lists
      /\ \A r \in Rows : rows'[r] \in There => rows[r] \in There \/ Home[r] = workspace
  BY <1>1, ApplyIs DEF IInv
<1>4. TypeOK'
  BY <1>1, <1>2, <1>3 DEF IInv, TypeOK
<1>5. ListsAreTheirs' /\ NewestIsHere' /\ NumbersHelp' /\ ThisWorkspace' /\ Seeds' /\ Spins'
  BY <1>1, <1>3 DEF IInv, ListsAreTheirs, NewestIsHere, NumbersHelp, ThisWorkspace, Seeds, Spins
<1>6. Approvals'
  BY <1>1, <1>2 DEF IInv, Approvals
<1>7. ASSUME Settled'
      PROVE  Settled
  <2>1. ~WillLoad(d)'
    BY <1>1, <1>7 DEF Settled
  <2>2. ~WillLoad(c)
    BY <1>1, <1>2, <2>1 DEF WillLoad
  <2> QED
    BY <1>1, <1>7, <2>2, SettledBefore
<1>8. LoadsFit'
  BY <1>1, <1>7 DEF IInv, LoadsFit
<1>9. RowsFit'
  <2> SUFFICES ASSUME Loaded' PROVE RowsFit'
    BY DEF RowsFit
  <2>1. Loaded
    BY <1>1, <1>7 DEF Loaded
  <2>2. \A r \in Rows : RowFits(r)
    BY <2>1 DEF IInv, RowsFit
  <2>3. Removed(c) = Apply(c) /\ (c.row # Null => server[c.row] = "gone")
    BY <1>1 DEF Apply, IInv, Approvals
  <2>4. rows' = rows
    BY <1>1, <2>2, <2>3, ApplySame
  <2>5. \A r \in Rows : Awaited(r) => Awaited(r)'
    BY <1>1, AwaitedStays
  <2> QED
    BY <1>1, <2>1, <2>4, <2>5, RowsStay DEF ListStays
<1> QED
  BY <1>4, <1>5, <1>6, <1>8, <1>9 DEF IInv

\* The answer to the choice of an agent is put into the row: it is what the server has there, unless
\* the agent was chosen again.
LEMMA ChosenFits == ASSUME IInv, NEW c \in changes, Chosen(c) PROVE IInv'
<1>1. /\ c.stage = "done" /\ c.kind = "run as" /\ rows' = Apply(c) /\ changes' = changes \ {c}
      /\ missed' = (missed \/ Crossed(c.row, c.ws) \/ Overtaken(c))
      /\ UNCHANGED <<page, field, workspace, server, seeded, loading, failed, loads, faults, torn, late, old>>
  BY DEF Chosen
<1>2. /\ rows' \in Lists
      /\ \A r \in Rows : rows'[r] \in There => rows[r] \in There \/ Home[r] = workspace
  BY <1>1, ApplyIs DEF IInv
<1>3. TypeOK'
  BY <1>1, <1>2 DEF IInv, TypeOK, Crossed, Overtaken, Sets
<1>4. ListsAreTheirs' /\ NewestIsHere' /\ NumbersHelp' /\ ThisWorkspace' /\ Seeds' /\ Spins'
  BY <1>1, <1>2 DEF IInv, ListsAreTheirs, NewestIsHere, NumbersHelp, ThisWorkspace, Seeds, Spins
<1>5. Approvals'
  BY <1>1 DEF IInv, Approvals
<1>6. Settled' => Settled
  BY <1>1, SettledBefore DEF WillLoad
<1>7. LoadsFit'
  BY <1>1, <1>6 DEF IInv, LoadsFit
<1>8. RowsFit'
  <2> SUFFICES ASSUME Loaded' PROVE RowsFit'
    BY DEF RowsFit
  <2>1. Loaded /\ ~Crossed(c.row, c.ws) /\ ~Overtaken(c)
    BY <1>1, <1>6 DEF Loaded
  <2>2. /\ \A r \in Rows : RowFits(r)
        /\ page \in {"automations", "agents"} => workspace \in seeded
    BY <2>1 DEF IInv, RowsFit
  <2>3. rows \in Lists /\ c.to \in There /\ c.row \in Rows \cup {Null} /\ "none" \notin There
    BY DEF IInv, TypeOK, Change, There
  <2>4. ASSUME NEW r \in Rows, Awaited(r), r # c.row \/ c.ws # workspace
        PROVE  Awaited(r)'
    BY <1>1, <2>4 DEF Awaited
  <2>5. CASE Apply(c) = rows /\ (c.row = Null \/ c.ws # workspace)
    <3>1. \A r \in Rows : Awaited(r) => Awaited(r)'
      BY <2>4, <2>5, WorkspacePagesAssumption
    <3> QED
      BY <1>1, <2>1, <2>5, <3>1, RowsStay DEF ListStays
  <2>6. CASE c.row = Null \/ c.ws # workspace
    <3>1. c.row = Null \/ Home[c.row] # workspace
      BY <2>1, <2>6 DEF Crossed
    <3>2. Apply(c) = rows
      BY <2>2, <3>1, ApplySame
    <3> QED
      BY <2>5, <2>6, <3>2
  <2>7. CASE c.row \in Rows /\ c.ws = workspace
    <3>1. Home[c.row] = workspace
      BY <2>1, <2>7, WorkspacePagesAssumption DEF Crossed
    <3>2. \A r \in Rows : r # c.row => rows'[r] = rows[r]
      BY <1>1, <2>3 DEF Apply, Toggled, Lists
    <3>3. ASSUME NEW r \in Rows, r # c.row
          PROVE  RowFits(r)'
      BY <1>1, <2>2, <2>4, <3>2, <3>3 DEF RowFits
    <3>4. RowFits(c.row)'
      <4>1. RowFits(c.row)
        BY <2>2, <2>7
      <4>2. CASE field = "agent" /\ rows[c.row] \in There
        <5>1. rows' = [rows EXCEPT ![c.row] = c.to]
          BY <1>1, <4>2 DEF IInv, TypeOK, FieldsOf, Apply, Sets, Toggled
        <5>2. rows'[c.row] = c.to
          BY <2>3, <2>7, <5>1 DEF Lists
        <5>3. server[c.row] \in There
          BY <2>3, <2>7, <4>1, <4>2 DEF RowFits, ListOf
        <5>4. server[c.row] = c.to
          BY <1>1, <2>1, <4>2, <5>3 DEF Overtaken, Sets
        <5> QED
          BY <1>1, <2>3, <2>7, <3>1, <5>2, <5>4 DEF RowFits, ListOf
      <4>3. CASE field # "agent" \/ rows[c.row] \notin There
        <5>1. rows[c.row] = ListOf(workspace, server)[c.row]
          BY <4>1, <4>3 DEF RowFits, Awaited
        <5>2. rows' = rows
          BY <1>1, <4>3 DEF Apply, Sets, Toggled
        <5> QED
          BY <1>1, <5>1, <5>2 DEF RowFits
      <4> QED
        BY <4>2, <4>3
    <3> QED
      BY <1>1, <2>2, <3>3, <3>4 DEF RowsFit
  <2> QED
    BY <2>3, <2>6, <2>7
<1> QED
  BY <1>3, <1>4, <1>5, <1>7, <1>8 DEF IInv

\* What was refused or lost is over; the list is loaded when the page was told of a run.
LEMMA NotDoneFits == ASSUME IInv, NEW c \in changes, NotDone(c) PROVE IInv'
<1>1. /\ c.stage \in {"refused", "lost"} /\ changes' = changes \ {c}
      /\ IF (c.kind = "run" /\ page = "agents") \/ (c.kind = "resume" /\ c.stage = "refused")
         THEN StartLoad(c.ws, workspace, FALSE)
         ELSE UNCHANGED <<loading, loads, late>>
      /\ UNCHANGED <<page, field, workspace, server, seeded, rows, failed, faults, torn, old, missed>>
  BY DEF NotDone
<1>2. c.ws \in Workspaces
  BY DEF IInv, TypeOK, Change
<1>3. ThisWorkspace' /\ Approvals'
  BY <1>1 DEF IInv, ThisWorkspace, Approvals
<1>7. \A r \in Rows : Awaited(r) => Awaited(r)'
  BY <1>1, AwaitedStays
<1>4. CASE StartLoad(c.ws, workspace, FALSE) /\ c.ws = workspace
  <2>1. /\ loads' \subseteq Load /\ loading' \in BOOLEAN /\ late' = FALSE
        /\ ListsAreTheirs' /\ NewestIsHere' /\ Seeds' /\ Spins' /\ LoadsFit' /\ RowsFit'
    BY <1>1, <1>2, <1>4, StartNewest
  <2>2. TypeOK' /\ NumbersHelp'
    BY <1>1, <2>1 DEF IInv, TypeOK, NumbersHelp
  <2> QED
    BY <1>3, <2>1, <2>2 DEF IInv
<1>5. CASE StartLoad(c.ws, workspace, FALSE) /\ c.ws # workspace
  <2>1. /\ loads' \subseteq Load /\ loading' \in BOOLEAN /\ late' \in BOOLEAN
        /\ page = "agents" => late' = late
        /\ ListsAreTheirs' /\ NewestIsHere' /\ Seeds' /\ Spins'
        /\ \A k \in loads' : k.newest /\ k.stage # "asked" =>
             \E l \in loads : Kin(k, l) /\ l.newest /\ l.stage # "asked"
        /\ \A l \in loads : \E k \in loads' : Stands(k, l)
    BY <1>1, <1>2, <1>5, StartOther
  <2>2. TypeOK' /\ NumbersHelp'
    BY <1>1, <2>1 DEF IInv, TypeOK, NumbersHelp
  <2>3. ListStays /\ (Settled' => Settled)
    BY <1>1, <1>5, SettledBefore DEF ListStays, WillLoad
  <2>4. LoadsFit'
    BY <1>1, <2>1, <2>3, LoadsStay
  <2>5. Loaded' => Loaded
    BY <1>1, <2>1, <2>3, LoadedBefore DEF Stands
  <2>6. RowsFit'
    BY <1>1, <1>7, <2>3, <2>5, RowsStay
  <2> QED
    BY <1>3, <2>1, <2>2, <2>4, <2>6 DEF IInv
<1>6. CASE UNCHANGED <<loading, loads, late>> /\ ~(c.kind = "resume" /\ c.stage = "refused")
  <2>1. TypeOK' /\ ListsAreTheirs' /\ NewestIsHere' /\ NumbersHelp' /\ Seeds' /\ Spins'
    BY <1>1, <1>6 DEF IInv, TypeOK, ListsAreTheirs, NewestIsHere, NumbersHelp, Seeds, Spins
  <2>2. Settled' => Settled
    BY <1>1, <1>6, SettledBefore DEF WillLoad
  <2>3. LoadsFit' /\ (Loaded' => Loaded)
    BY <1>1, <1>6, <2>2 DEF IInv, LoadsFit, Loaded
  <2>4. RowsFit'
    BY <1>1, <1>7, <2>3, RowsStay DEF ListStays
  <2> QED
    BY <1>3, <2>1, <2>3, <2>4 DEF IInv
<1> QED
  BY <1>1, <1>4, <1>5, <1>6

-----------------------------------------------------------------------------
(* The theorems. *)

\* Before a workspace is on screen nothing is.
LEMMA InitInvariant == Init => IInv
<1> SUFFICES ASSUME Init PROVE IInv
  OBVIOUS
<1>1. TypeOK
  <2>1. server \in [Rows -> Shown \cup {"gone"}]
    BY DEF Init, Shown, There
  <2>2. faults \in 0 .. MaxFaults
    BY WorkspacePagesAssumption DEF Init
  <2> QED
    BY <2>1, <2>2, EmptyType DEF Init, TypeOK
<1>2. ListsAreTheirs /\ NewestIsHere /\ NumbersHelp /\ Spins /\ Approvals
  BY DEF Init, ListsAreTheirs, NewestIsHere, NumbersHelp, Spins, Approvals
<1>3. ThisWorkspace /\ Seeds
  BY EmptyType DEF Init, ThisWorkspace, Seeds, Rows
<1>4. LoadsFit /\ RowsFit
  BY DEF Init, LoadsFit, RowsFit, Loaded, Settled
<1> QED
  BY <1>1, <1>2, <1>3, <1>4 DEF IInv

\* The inductive invariant: what loads and rows hold is of their workspace, the spinner has a load
\* that will stop it, and what is shown for good is what the server has.
THEOREM Invariance == Spec => []IInv
<1>1. IInv /\ [Next]_vars => IInv'
  <2> SUFFICES ASSUME IInv, [Next]_vars PROVE IInv'
    OBVIOUS
  <2>1. CASE UNCHANGED vars
    <3>1. TypeOK' /\ ListsAreTheirs' /\ NewestIsHere' /\ NumbersHelp' /\ ThisWorkspace' /\ Approvals'
      BY <2>1 DEF vars, IInv, TypeOK, ListsAreTheirs, NewestIsHere, NumbersHelp, ThisWorkspace, Approvals
    <3>2. Seeds' /\ Spins' /\ LoadsFit'
      BY <2>1 DEF vars, IInv, Seeds, Spins, LoadsFit, Settled, WillLoad
    <3>3. RowsFit'
      BY <2>1 DEF vars, IInv, RowsFit, RowFits, Awaited, Loaded, Settled, WillLoad
    <3> QED
      BY <3>1, <3>2, <3>3 DEF IInv
  <2>2. ASSUME NEW w \in Workspaces, Switch(w) PROVE IInv'
    BY <2>2, SwitchFits
  <2>3. CASE Refresh \/ Poll
    BY <2>3, ReloadFits
  <2>4. CASE Press
    BY <2>4, PressFits
  <2>5. ASSUME NEW r \in Rows, Click(r) \/ Elsewhere(r) PROVE IInv'
    BY <2>5, ClickFits, ElsewhereFits
  <2>6. ASSUME NEW c \in changes, Lose(c) \/ Process(c) \/ Done(c) \/ Chosen(c) \/ Approved(c) \/ NotDone(c)
        PROVE  IInv'
    BY <2>6, LoseFits, ProcessFits, DoneFits, ChosenFits, ApprovedFits, NotDoneFits
  <2>7. ASSUME NEW l \in loads, Answer(l) \/ Arrive(l) \/ Finish(l) \/ Take(l) PROVE IInv'
    BY <2>7, AnswerFits, ArriveFits, FinishFits, TakeFits
  <2> QED
    BY <2>1, <2>2, <2>3, <2>4, <2>5, <2>6, <2>7 DEF Next, Network
<1> QED
  BY <1>1, InitInvariant, PTL DEF Spec

\* No page ever offers a row of a workspace that is not on screen, however requests and changes of
\* the workspace race, but for a body that was being read when it was left.
THEOREM RowsCorrect == Spec => []RowsAreOfTheWorkspace
<1>1. IInv => RowsAreOfTheWorkspace
  BY DEF IInv, ThisWorkspace, RowsAreOfTheWorkspace
<1> QED
  BY <1>1, Invariance, PTL

\* With no load under way the spinner is still, except after the answer of a change whose workspace
\* was left.
THEOREM SpinnerCorrect == Spec => []SpinnerEnds
<1>1. IInv => SpinnerEnds
  BY DEF IInv, Spins, NumbersHelp, SpinnerEnds
<1> QED
  BY <1>1, Invariance, PTL

\* A page at rest shows the rows that the server has.
THEOREM ShownCorrect == Spec => []ShowsTheServer
<1>1. IInv => ShowsTheServer
  <2> SUFFICES ASSUME IInv, loads = {}, changes = {}, workspace # Null, ~failed, ~missed,
                      ~((torn \/ old) /\ page # "agents")
               PROVE  rows = ListOf(workspace, server)
    BY DEF ShowsTheServer
  <2>1. Loaded
    BY DEF Loaded, Settled
  <2>2. \A r \in Rows : rows[r] = ListOf(workspace, server)[r]
    BY <2>1 DEF IInv, RowsFit, RowFits, Awaited
  <2>3. rows \in Lists /\ ListOf(workspace, server) \in Lists
    BY ListOfType DEF IInv, TypeOK
  <2> QED
    BY <2>2, <2>3 DEF Lists
<1> QED
  BY <1>1, Invariance, PTL

\* No step makes a row again that was deleted: not a read that makes the server's own rows, not a
\* change that comes late.
THEOREM StartersCorrect == Spec => StartersComeOnce
<1>1. IInv /\ [Next]_vars => [\A r \in Rows : server[r] = "gone" => server'[r] = "gone"]_vars
  <2> SUFFICES ASSUME IInv, Next, NEW r \in Rows, server[r] = "gone" PROVE server'[r] = "gone"
    OBVIOUS
  <2>1. CASE UNCHANGED server
    BY <2>1
  <2>2. ASSUME NEW l \in loads, Answer(l) PROVE server'[r] = "gone"
    <3>1. l.ws \in Workspaces /\ TypeOK /\ Seeds
      BY DEF IInv, TypeOK, Load
    <3>2. Serve(l.ws) \/ UNCHANGED server
      BY <2>2 DEF Answer
    <3> QED
      BY <3>1, <3>2, ServeIs
  <2>3. ASSUME NEW c \in changes, Process(c) PROVE server'[r] = "gone"
    <3>1. PICK e \in Effects(c) : server' = e[3]
      BY <2>3 DEF Process
    <3> QED
      BY <3>1, EffectsAre DEF IInv
  <2>4. ASSUME NEW s \in Rows, Elsewhere(s) PROVE server'[r] = "gone"
    <3>1. server \in [Rows -> Shown \cup {"gone"}]
      BY DEF IInv, TypeOK
    <3> QED
      BY <2>4, <3>1 DEF Elsewhere
  <2>5. ASSUME NEW s \in Rows, Click(s) PROVE UNCHANGED server
    BY <2>5 DEF Click, Ask
  <2>6. CASE Refresh \/ Poll \/ Press \/ \E w \in Workspaces : Switch(w)
    BY <2>1, <2>6 DEF Refresh, Poll, Press, Ask, Switch
  <2>7. ASSUME NEW l \in loads, Arrive(l) \/ Finish(l) \/ Take(l) PROVE UNCHANGED server
    BY <2>7 DEF Arrive, Finish, Take
  <2>8. ASSUME NEW c \in changes, Lose(c) \/ Done(c) \/ Chosen(c) \/ Approved(c) \/ NotDone(c)
        PROVE  UNCHANGED server
    BY <2>8 DEF Lose, Done, Chosen, Approved, NotDone
  <2> QED
    BY <2>1, <2>2, <2>3, <2>4, <2>5, <2>6, <2>7, <2>8 DEF Next, Network
<1> QED
  BY <1>1, Invariance, PTL DEF Spec, StartersComeOnce
=============================================================================
