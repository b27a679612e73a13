--------------------------- MODULE AppShell_proofs ---------------------------
(***************************************************************************)
(* Proofs about the shell of the page and its tree: the session that is    *)
(* kept is the one there is, no two tabs have the same name, and the URL   *)
(* is that of the active tab (AppShell); the tree shows what the server    *)
(* has (Sidebar).                                                          *)
(*                                                                         *)
(* A session may be overwritten only when the tabs are shown that were     *)
(* read from it, so that SessionInv follows the first effects of a page:   *)
(* no tabs before they are restored, and an effect that restores them as   *)
(* soon as the user is signed in. A row of the tree is followed through    *)
(* the one list that is asked for it (RowInv).                             *)
(***************************************************************************)
EXTENDS AppShell, Sidebar, Sublists_proofs, FiniteSetTheorems, TLAPS

-----------------------------------------------------------------------------
(* Unless its effects are still to run or the storage has not got it, the  *)
(* kept session is the one there is. Before it is restored there are no    *)
(* tabs that could overwrite it.                                           *)
SessionInv ==
  /\ stored = [tabs |-> stored.tabs, active |-> stored.active]
  /\ (restored /\ ~unsaved /\ "tabs" \notin changed /\ "active" \notin changed) =>
       stored.tabs = tabs /\ (active # None => stored.active = active)
  /\ ~restored => tabs = <<>> /\ active = None /\ calls = {}
  /\ (~restored /\ auth = "ready") => "auth" \in changed

LEMMA TabsChange ==
  ASSUME SessionInv, "tabs" \in changed', restored, UNCHANGED <<restored, stored, unsaved>>
  PROVE  SessionInv'
  BY DEF SessionInv

LEMMA TabsStay ==
  ASSUME SessionInv, Quiet, UNCHANGED <<tabs, active, restored, stored, unsaved>>,
         calls' = {} \/ restored,
         (~restored /\ auth' = "ready") => "auth" \in changed'
  PROVE  SessionInv'
  BY DEF SessionInv, Quiet

(* What is written is the session, the tabs of it or nothing.              *)
LEMMA Stored ==
  ASSUME SessionInv, StoreSession
  PROVE  /\ stored' = [tabs |-> stored'.tabs, active |-> stored'.active]
         /\ stored'.tabs \in {tabs, stored.tabs}
         /\ ~Persists => UNCHANGED <<stored, unsaved>>
         /\ (Persists /\ ~unsaved') =>
              stored'.tabs = tabs /\ (active # None => stored'.active = active)
<1> DEFINE written == [stored EXCEPT !.tabs = tabs]
<1>1. stored = [tabs |-> stored.tabs, active |-> stored.active]
  BY DEF SessionInv
<1>2. written = [tabs |-> tabs, active |-> stored.active]
  BY <1>1
<1>3. \/ ~Persists /\ UNCHANGED <<stored, unsaved>>
      \/ /\ Persists /\ unsaved' = FALSE
         /\ stored' = IF active = None THEN written ELSE [tabs |-> tabs, active |-> active]
      \/ /\ Persists /\ unsaved' = TRUE
         /\ stored' = stored \/ (active # None /\ stored' = written)
  BY DEF StoreSession
<1> HIDE DEF written
<1>4. CASE ~Persists /\ UNCHANGED <<stored, unsaved>>
  BY <1>1, <1>4
<1>5. CASE Persists /\ unsaved' = TRUE /\ (stored' = stored \/ stored' = written)
  BY <1>1, <1>2, <1>5
<1>6. CASE Persists /\ active = None /\ stored' = written
  BY <1>2, <1>6
<1>7. CASE Persists /\ active # None /\ stored' = [tabs |-> tabs, active |-> active]
  BY <1>7
<1>. QED
  BY <1>3, <1>4, <1>5, <1>6, <1>7

LEMMA SessionStep == SessionInv /\ [ShellNext]_shellVars => SessionInv'
<1> SUFFICES ASSUME SessionInv, [ShellNext]_shellVars PROVE SessionInv'
  OBVIOUS
<1>0. /\ Quiet /\ auth = "ready" => restored
      /\ \A k \in calls : restored
  BY DEF SessionInv, Quiet
<1>1. CASE RunEffects
  <2>1. AfterEffects /\ UNCHANGED <<auth, calls>>
    BY <1>1 DEF RunEffects
  <2>2. StoreSession
    BY <2>1, Zenon DEF AfterEffects
  <2>3. restored' = (restored \/ Restores)
    BY <2>1, Zenon DEF AfterEffects
  <2>4. Restores => ~Opens /\ ~Activates
    BY DEF Restores, Opens, Activates, RouteEffect
  <2>5. /\ Restores => tabs' = stored.tabs
        /\ ~Restores /\ ~Opens => tabs' = tabs
    BY <2>1, <2>4 DEF AfterEffects
  <2>6. /\ (Restores /\ stored.tabs # <<>>) =>
             active' = IF stored.active \in Ids(stored.tabs) THEN stored.active
                       ELSE stored.tabs[1].id
        /\ ~(Restores /\ stored.tabs # <<>>) /\ ~Activates /\ ~Opens => active' = active
    BY <2>1, <2>4 DEF AfterEffects
  <2>7. /\ "tabs" \notin changed' => tabs' = tabs
        /\ "active" \notin changed' => active' = active
    BY <1>1 DEF RunEffects
  <2>8. /\ stored' = [tabs |-> stored'.tabs, active |-> stored'.active]
        /\ ~Persists => UNCHANGED <<stored, unsaved>>
        /\ (Persists /\ ~unsaved') =>
             stored'.tabs = tabs /\ (active # None => stored'.active = active)
    BY <2>2, Stored
  <2>10. ASSUME restored', ~unsaved', "tabs" \notin changed', "active" \notin changed'
        PROVE  stored'.tabs = tabs' /\ (active' # None => stored'.active = active')
    <3>1. tabs' = tabs /\ active' = active
      BY <2>7, <2>10
    <3>2. CASE restored /\ Persists
      BY <2>8, <2>10, <3>1, <3>2
    <3>3. CASE restored /\ ~Persists
      <4>1. "tabs" \notin changed /\ "active" \notin changed /\ UNCHANGED <<stored, unsaved>>
        BY <2>8, <3>3 DEF Persists
      <4>. QED
        BY <2>10, <3>1, <3>3, <4>1 DEF SessionInv
    <3>4. CASE ~restored
      <4>1. Restores /\ ~Persists
        BY <2>3, <2>10, <3>4 DEF Persists
      <4>2. stored' = stored /\ tabs' = stored.tabs /\ active' = None
        <5>1. active = None
          BY <3>4 DEF SessionInv
        <5>. QED
          BY <2>5, <2>8, <3>1, <4>1, <5>1
      <4>. QED
        BY <4>2
    <3>. QED
      BY <3>2, <3>3, <3>4
  <2>11. ASSUME ~restored'
        PROVE  tabs' = <<>> /\ active' = None /\ calls' = {} /\ auth' # "ready"
    <3>1. ~restored /\ ~Restores
      BY <2>3, <2>11
    <3>2. auth # "ready" /\ tabs = <<>> /\ active = None /\ calls = {}
      BY <3>1 DEF SessionInv, Restores
    <3>3. ~Activates /\ ~Opens
      BY <3>2 DEF Activates, Opens, RouteEffect
    <3>4. tabs' = tabs /\ active' = active
      BY <2>5, <2>6, <3>1, <3>3
    <3>. QED
      BY <2>1, <3>2, <3>4
  <2>. QED
    BY <2>8, <2>10, <2>11 DEF SessionInv
<1>2. ASSUME NEW id,
             \/ DuplicateQueryTab(id) \/ CloseTab(id)
             \/ CloseOtherTabs(id) \/ CloseTabsToRight(id)
             \/ \E r \in Routes : RenameTab(id, r)
      PROVE  SessionInv'
  BY <1>0, <1>2, TabsChange DEF DuplicateQueryTab, CloseTab, CloseOtherTabs,
     CloseTabsToRight, CloseTabs, RenameTab, SetTabs, sessionVars
<1>3. ASSUME NEW id, SetActive(id) PROVE SessionInv'
  BY <1>0, <1>3 DEF SetActive, SessionInv, sessionVars, Quiet
<1>4. ASSUME NEW right, CycleTab(right) PROVE SessionInv'
  BY <1>3, <1>4 DEF CycleTab
<1>5. ASSUME NEW r, OpenTab(r) PROVE SessionInv'
  BY <1>0, <1>5 DEF OpenTab, SetTabs, SessionInv, sessionVars, Quiet
<1>6. ASSUME NEW from, NEW to, ReorderTabs(from, to) PROVE SessionInv'
  <2>1. restored
    BY <1>6 DEF ReorderTabs, SessionInv
  <2>. QED
    BY <1>6, <2>1, TabsChange DEF ReorderTabs, SetTabs, sessionVars
<1>7. ASSUME NEW c, NEW d, HandleDatabaseDropped(c, d) PROVE SessionInv'
  BY <1>0, <1>7, TabsChange DEF HandleDatabaseDropped, SetTabs, sessionVars
<1>8. ASSUME NEW c, NEW id, StartDrop(c, id) PROVE SessionInv'
  BY <1>0, <1>8 DEF StartDrop, SessionInv, sessionVars
<1>9. ASSUME NEW id, DropTable(id) PROVE SessionInv'
  BY <1>8, <1>9 DEF DropTable
<1>10. ASSUME NEW c, DeleteConnection(c) PROVE SessionInv'
  BY <1>8, <1>10 DEF DeleteConnection
<1>11. CASE SignIn \/ Unauthorized \/ \E answer \in {"login", "ready"} : CheckAuth(answer)
  <2>1. calls' = {} \/ restored
    BY <1>11 DEF SignIn, Unauthorized, CheckAuth, SessionInv
  <2>. QED
    BY <1>11, <2>1, TabsStay DEF SignIn, Unauthorized, CheckAuth
<1>12. CASE HandleLogout
  BY <1>0, <1>12, TabsChange DEF HandleLogout, SessionInv
<1>13. ASSUME NEW r, PopState(r) PROVE SessionInv'
  <2>1. calls' = {} \/ restored
    BY <1>13 DEF PopState, SessionInv
  <2>. QED
    BY <1>0, <1>13, <2>1, TabsStay DEF PopState, sessionVars
<1>14. ASSUME NEW r, Reload(r) PROVE SessionInv'
  BY <1>14 DEF Reload, SessionInv
<1>15. ASSUME NEW list, ListAnswers(list) PROVE SessionInv'
  BY <1>15, TabsStay DEF ListAnswers
<1>16. CASE ListFails
  BY <1>16, TabsStay DEF ListFails
<1>17. ASSUME NEW k \in calls, ConnectionDeleted(k) \/ TableDropped(k) PROVE SessionInv'
  BY <1>0, <1>17, TabsChange DEF ConnectionDeleted, TableDropped, SetTabs, sessionVars
<1>18. ASSUME NEW k \in calls, DropFails(k) PROVE SessionInv'
  BY <1>0, <1>18 DEF DropFails, SessionInv, sessionVars
<1>19. ASSUME NEW s \in OtherSessions, OtherWindowStores(s) PROVE SessionInv'
  <2>1. /\ stored' \in [tabs : {stored.tabs, s.tabs}, active : {stored.active, s.active}]
        /\ unsaved' = (unsaved \/ restored)
        /\ UNCHANGED <<auth, tabs, active, restored, changed, calls>>
    BY <1>19 DEF OtherWindowStores
  <2>2. stored' = [tabs |-> stored'.tabs, active |-> stored'.active]
    BY <2>1
  <2>. QED
    BY <2>1, <2>2 DEF SessionInv
<1>20. CASE UNCHANGED shellVars
  BY <1>20 DEF shellVars, SessionInv
<1>. QED
  BY <1>1, <1>2, <1>3, <1>4, <1>5, <1>6, <1>7, <1>9, <1>10, <1>11, <1>12, <1>13, <1>14,
     <1>15, <1>16, <1>17, <1>18, <1>19, <1>20
     DEF ShellNext, WindowNext, OthersNext, UserNext, AnswersNext

(* A page that is loaded anew finds the tabs it had, unless the last write *)
(* of its session failed or another window has written over it.            *)
THEOREM SessionSaved == ShellSpec => []SessionIsSaved
<1>1. ShellInit => SessionInv
  BY DEF ShellInit, SessionInv
<1>2. SessionInv => SessionIsSaved
  BY DEF SessionInv, SessionIsSaved, Quiet
<1>. QED
  BY <1>1, <1>2, SessionStep, PTL DEF ShellSpec

-----------------------------------------------------------------------------
(* Tabs are well named, and unless tabs were set over those of the moment  *)
(* no two have the same name, nor will they when they are restored.        *)
TabTypes ==
  /\ route \in Routes \cup {Welcome}
  /\ tabs \in Seq(Tabs) /\ stored.tabs \in Seq(Tabs)
  /\ \A k \in calls : k.tabs \in Seq(Tabs)

TabsInv == TabTypes /\ (~overlapped => Distinct(tabs) /\ Distinct(stored.tabs))

LEMMA NoTabs == <<>> \in Seq(Tabs) /\ Distinct(<<>>)
  BY DEF Distinct

LEMMA OmitTabs ==
  ASSUME NEW s \in Seq(Tabs), NEW dropped
  PROVE  Omit(s, dropped) \in Seq(Tabs) /\ (Distinct(s) => Distinct(Omit(s, dropped)))
<1> DEFINE rest == Omit(s, dropped)
<1>1. rest \in Seq(Tabs) /\ \E at : IsLeft(rest, at, s, Len(s), dropped)
  BY OmitLeaves
<1> HIDE DEF rest
<1>2. PICK at : IsLeft(rest, at, s, Len(s), dropped)
  BY <1>1
<1>3. DOMAIN s = 1..Len(s) /\ DOMAIN rest = 1..Len(rest) /\ Len(rest) \in Nat
  BY <1>1, LenProperties
<1>4. ASSUME Distinct(s), NEW i \in DOMAIN rest, NEW j \in DOMAIN rest, rest[i].id = rest[j].id
      PROVE  i = j
  <2>1. /\ at[i] \in DOMAIN s /\ at[j] \in DOMAIN s
        /\ s[at[i]] = rest[i] /\ s[at[j]] = rest[j]
    BY <1>2, <1>3 DEF IsLeft
  <2>2. at[i] = at[j]
    BY <1>4, <2>1 DEF Distinct
  <2>3. /\ i < j => at[i] < at[j]
        /\ j < i => at[j] < at[i]
    BY <1>2, <1>3 DEF IsLeft
  <2>4. at[i] \in Int
    BY <1>3, <2>1
  <2>. QED
    BY <1>3, <2>2, <2>3, <2>4
<1>5. Distinct(s) => Distinct(rest)
  BY <1>4 DEF Distinct
<1>. QED
  BY <1>1, <1>5 DEF rest

(* SubSeq(s, 1, p - 1) \o <<t>> \o SubSeq(s, p, Len(s)).                   *)
LEMMA InsertedAt ==
  ASSUME NEW s \in Seq(Tabs), NEW p \in 1..(Len(s) + 1), NEW t \in Tabs
  PROVE  /\ InsertAt(s, p, t) \in Seq(Tabs)
         /\ Len(InsertAt(s, p, t)) = Len(s) + 1
         /\ \A i \in 1..(Len(s) + 1) :
              InsertAt(s, p, t)[i] = IF i < p THEN s[i] ELSE IF i = p THEN t ELSE s[i - 1]
<1> DEFINE before == SubSeq(s, 1, p - 1)
           after  == SubSeq(s, p, Len(s))
           with   == before \o <<t>>
<1>1. Len(s) \in Nat /\ \A i \in 1..Len(s) : s[i] \in Tabs
  BY LenProperties, ElementOfSeq
<1>2. /\ before \in Seq(Tabs) /\ Len(before) = p - 1
      /\ \A i \in 1..(p - 1) : before[i] = s[i]
  <2>1. \A i \in 1..(p - 1) : s[i] \in Tabs
    BY <1>1
  <2>2. /\ SubSeq(s, 1, p - 1) \in Seq(Tabs)
        /\ Len(SubSeq(s, 1, p - 1)) = IF 1 <= p - 1 THEN (p - 1) - 1 + 1 ELSE 0
        /\ \A i \in 1..((p - 1) - 1 + 1) : SubSeq(s, 1, p - 1)[i] = s[1 + i - 1]
    BY <1>1, <2>1, SubSeqProperties
  <2> HIDE DEF before
  <2>3. before = SubSeq(s, 1, p - 1)
    BY DEF before
  <2>. QED
    BY <1>1, <2>2, <2>3
<1>3. /\ after \in Seq(Tabs) /\ Len(after) = Len(s) - p + 1
      /\ \A i \in 1..(Len(s) - p + 1) : after[i] = s[p + i - 1]
  BY <1>1, SubSeqProperties
<1> HIDE DEF before, after
<1>4. /\ with \in Seq(Tabs) /\ Len(with) = p
      /\ \A i \in 1..(p - 1) : with[i] = s[i]
      /\ with[p] = t
  <2>1. <<t>> \in Seq(Tabs) /\ Len(<<t>>) = 1 /\ <<t>>[1] = t
    OBVIOUS
  <2>2. /\ with \in Seq(Tabs) /\ Len(with) = Len(before) + Len(<<t>>)
        /\ \A i \in 1..(Len(before) + Len(<<t>>)) :
             with[i] = IF i <= Len(before) THEN before[i] ELSE <<t>>[i - Len(before)]
    BY <1>2, <2>1, ConcatProperties
  <2> HIDE DEF with
  <2>. QED
    BY <1>1, <1>2, <2>1, <2>2
<1> HIDE DEF with
<1>5. /\ with \o after \in Seq(Tabs) /\ Len(with \o after) = Len(with) + Len(after)
      /\ \A i \in 1..(Len(with) + Len(after)) :
           (with \o after)[i] = IF i <= Len(with) THEN with[i] ELSE after[i - Len(with)]
  BY <1>3, <1>4, ConcatProperties
<1>6. InsertAt(s, p, t) = with \o after
  BY DEF InsertAt, with, before, after
<1>7. Len(with) + Len(after) = Len(s) + 1
  BY <1>1, <1>3, <1>4
<1>8. ASSUME NEW i \in 1..(Len(s) + 1)
      PROVE  (with \o after)[i] = IF i < p THEN s[i] ELSE IF i = p THEN t ELSE s[i - 1]
  <2>0. p \in Int /\ i \in Int /\ Len(s) \in Nat
    BY <1>1
  <2>1. CASE i < p
    <3>1. (with \o after)[i] = with[i] /\ i \in 1..(p - 1)
      BY <1>4, <1>5, <1>7, <2>0, <2>1
    <3>. QED
      BY <1>4, <2>1, <3>1
  <2>2. CASE i = p
    <3>1. (with \o after)[i] = with[i]
      BY <1>4, <1>5, <1>7, <2>0, <2>2
    <3>. QED
      BY <1>4, <2>0, <2>2, <3>1
  <2>3. CASE i > p
    <3>1. (with \o after)[i] = after[i - p] /\ i - p \in 1..(Len(s) - p + 1)
      BY <1>4, <1>5, <1>7, <2>0, <2>3
    <3>2. after[i - p] = s[p + (i - p) - 1]
      BY <1>3, <3>1
    <3>3. p + (i - p) - 1 = i - 1 /\ ~(i < p) /\ i # p
      BY <2>0, <2>3
    <3>. QED
      BY <3>1, <3>2, <3>3
  <2>4. i < p \/ i = p \/ i > p
    BY <2>0
  <2>. QED
    BY <2>1, <2>2, <2>3, <2>4, Zenon
<1>. QED
  BY <1>5, <1>6, <1>7, <1>8

(* SubSeq(s, 1, p - 1) \o SubSeq(s, p + 1, Len(s)).                        *)
LEMMA RemovedAt ==
  ASSUME NEW s \in Seq(Tabs), NEW p \in DOMAIN s
  PROVE  /\ RemoveAt(s, p) \in Seq(Tabs)
         /\ Len(RemoveAt(s, p)) = Len(s) - 1
         /\ \A i \in 1..(Len(s) - 1) : RemoveAt(s, p)[i] = s[IF i < p THEN i ELSE i + 1]
<1> DEFINE before == SubSeq(s, 1, p - 1)
           after  == SubSeq(s, p + 1, Len(s))
<1>1. Len(s) \in Nat /\ DOMAIN s = 1..Len(s) /\ \A i \in 1..Len(s) : s[i] \in Tabs
  BY LenProperties, ElementOfSeq
<1>2. /\ before \in Seq(Tabs) /\ Len(before) = p - 1
      /\ \A i \in 1..(p - 1) : before[i] = s[i]
  <2>1. \A i \in 1..(p - 1) : s[i] \in Tabs
    BY <1>1
  <2>2. /\ SubSeq(s, 1, p - 1) \in Seq(Tabs)
        /\ Len(SubSeq(s, 1, p - 1)) = IF 1 <= p - 1 THEN (p - 1) - 1 + 1 ELSE 0
        /\ \A i \in 1..((p - 1) - 1 + 1) : SubSeq(s, 1, p - 1)[i] = s[1 + i - 1]
    BY <1>1, <2>1, SubSeqProperties
  <2> HIDE DEF before
  <2>3. before = SubSeq(s, 1, p - 1)
    BY DEF before
  <2>. QED
    BY <1>1, <2>2, <2>3
<1>3. /\ after \in Seq(Tabs) /\ Len(after) = Len(s) - p
      /\ \A i \in 1..(Len(s) - p) : after[i] = s[p + i]
  BY <1>1, SubSeqProperties
<1> HIDE DEF before, after
<1>4. /\ before \o after \in Seq(Tabs) /\ Len(before \o after) = Len(before) + Len(after)
      /\ \A i \in 1..(Len(before) + Len(after)) :
           (before \o after)[i] = IF i <= Len(before) THEN before[i] ELSE after[i - Len(before)]
  BY <1>2, <1>3, ConcatProperties
<1>5. RemoveAt(s, p) = before \o after
  BY DEF RemoveAt, before, after
<1>6. Len(before) + Len(after) = Len(s) - 1
  BY <1>1, <1>2, <1>3
<1>7. ASSUME NEW i \in 1..(Len(s) - 1)
      PROVE  (before \o after)[i] = s[IF i < p THEN i ELSE i + 1]
  <2>0. p \in Int /\ i \in Int /\ Len(s) \in Nat
    BY <1>1
  <2>1. CASE i < p
    <3>1. (before \o after)[i] = before[i] /\ i \in 1..(p - 1)
      BY <1>2, <1>4, <1>6, <2>0, <2>1
    <3>. QED
      BY <1>2, <2>1, <3>1
  <2>2. CASE ~(i < p)
    <3>0. ~(i <= Len(before)) /\ i \in 1..(Len(before) + Len(after))
      BY <1>2, <1>6, <2>0, <2>2
    <3>1. (before \o after)[i] = after[i - (p - 1)] /\ i - (p - 1) \in 1..(Len(s) - p)
      <4>1. (before \o after)[i] = after[i - Len(before)]
        BY <1>4, <3>0
      <4>2. i - (p - 1) \in 1..(Len(s) - p)
        BY <2>0, <2>2
      <4>. QED
        BY <1>2, <4>1, <4>2
    <3>2. after[i - (p - 1)] = s[p + (i - (p - 1))]
      BY <1>3, <3>1
    <3>3. p + (i - (p - 1)) = i + 1
      BY <2>0
    <3>. QED
      BY <2>2, <3>1, <3>2, <3>3
  <2>. QED
    BY <2>1, <2>2, Zenon
<1>. QED
  BY <1>4, <1>5, <1>6, <1>7

(* A tab may be put anywhere among tabs of other names, or taken away.     *)
LEMMA InsertTabs ==
  ASSUME NEW s \in Seq(Tabs), NEW p \in 1..(Len(s) + 1), NEW t \in Tabs,
         Distinct(s), t.id \notin Ids(s)
  PROVE  Distinct(InsertAt(s, p, t))
<1> DEFINE more == InsertAt(s, p, t)
           from(i) == IF i < p THEN i ELSE i - 1
<1>1. /\ more \in Seq(Tabs) /\ Len(more) = Len(s) + 1
      /\ \A i \in 1..(Len(s) + 1) :
           more[i] = IF i < p THEN s[i] ELSE IF i = p THEN t ELSE s[i - 1]
  BY InsertedAt
<1> HIDE DEF more
<1>2. Len(s) \in Nat /\ DOMAIN s = 1..Len(s) /\ DOMAIN more = 1..(Len(s) + 1)
  BY <1>1, LenProperties
<1>3. ASSUME NEW i \in DOMAIN more, i # p
      PROVE  from(i) \in DOMAIN s /\ more[i] = s[from(i)]
  <2>1. i \in Int /\ p \in Int
    BY <1>2
  <2>2. CASE i < p
    BY <1>1, <1>2, <2>1, <2>2
  <2>3. CASE i > p
    BY <1>1, <1>2, <2>1, <2>3
  <2>. QED
    BY <1>3, <2>1, <2>2, <2>3
<1>4. p \in DOMAIN more /\ more[p] = t
  BY <1>1, <1>2
<1>5. ASSUME NEW i \in DOMAIN more, i # p
      PROVE  more[i].id # t.id
  BY <1>3, <1>5 DEF Ids
<1>6. ASSUME NEW i \in DOMAIN more, NEW j \in DOMAIN more, more[i].id = more[j].id
      PROVE  i = j
  <2>1. CASE i = p \/ j = p
    BY <1>4, <1>5, <1>6, <2>1
  <2>2. CASE i # p /\ j # p
    <3>1. from(i) = from(j)
      BY <1>3, <1>6, <2>2 DEF Distinct
    <3>2. i \in Int /\ j \in Int /\ p \in Int
      BY <1>2
    <3>. QED
      BY <2>2, <3>1, <3>2
  <2>. QED
    BY <2>1, <2>2
<1>. QED
  BY <1>6 DEF Distinct, more

LEMMA RemoveTabs ==
  ASSUME NEW s \in Seq(Tabs), NEW p \in DOMAIN s, Distinct(s)
  PROVE  /\ Distinct(RemoveAt(s, p))
         /\ s[p].id \notin Ids(RemoveAt(s, p))
<1> DEFINE less == RemoveAt(s, p)
           from(i) == IF i < p THEN i ELSE i + 1
<1>1. /\ less \in Seq(Tabs) /\ Len(less) = Len(s) - 1
      /\ \A i \in 1..(Len(s) - 1) : less[i] = s[from(i)]
  BY RemovedAt
<1> HIDE DEF less
<1>2. Len(s) \in Nat /\ DOMAIN s = 1..Len(s) /\ DOMAIN less = 1..(Len(s) - 1)
  BY <1>1, LenProperties
<1>3. p \in Int
  BY <1>2
<1>4. ASSUME NEW i \in DOMAIN less
      PROVE  from(i) \in DOMAIN s /\ less[i] = s[from(i)] /\ from(i) # p
  BY <1>1, <1>2, <1>3
<1>5. ASSUME NEW i \in DOMAIN less, NEW j \in DOMAIN less, less[i].id = less[j].id
      PROVE  i = j
  <2>1. from(i) = from(j)
    BY <1>4, <1>5 DEF Distinct
  <2>2. i \in Int /\ j \in Int
    BY <1>2
  <2>. QED
    BY <1>3, <2>1, <2>2
<1>6. ASSUME NEW i \in DOMAIN less PROVE less[i].id # s[p].id
  BY <1>4, <1>6 DEF Distinct
<1>. QED
  BY <1>5, <1>6 DEF Distinct, Ids, less

LEMMA AppendTabs ==
  ASSUME NEW s \in Seq(Tabs), NEW t \in Tabs
  PROVE  /\ Append(s, t) \in Seq(Tabs)
         /\ Distinct(s) /\ t.id \notin Ids(s) => Distinct(Append(s, t))
<1> DEFINE more == Append(s, t)
<1>1. /\ more \in Seq(Tabs) /\ Len(more) = Len(s) + 1
      /\ \A i \in 1..Len(s) : more[i] = s[i]
      /\ more[Len(s) + 1] = t
  BY AppendProperties
<1> HIDE DEF more
<1>2. Len(s) \in Nat /\ DOMAIN s = 1..Len(s) /\ DOMAIN more = 1..(Len(s) + 1)
  BY <1>1, LenProperties
<1>3. \A i \in DOMAIN more : i \in DOMAIN s \/ i = Len(s) + 1
  BY <1>2
<1>4. ASSUME t.id \notin Ids(s), NEW i \in DOMAIN s PROVE more[i].id # t.id
  BY <1>1, <1>2, <1>4 DEF Ids
<1>5. ASSUME Distinct(s), t.id \notin Ids(s) PROVE Distinct(more)
  BY <1>1, <1>2, <1>3, <1>4, <1>5 DEF Distinct
<1>. QED
  BY <1>1, <1>5 DEF more

(* One of one more numbers than there are tabs is that of none of them.    *)
LEMMA NumberIsNew ==
  ASSUME tabs \in Seq(Tabs)
  PROVE  NewNumber \in Nat /\ \A id \in Ids(tabs) : id.n # NewNumber
<1> DEFINE free(n) == \A id \in Ids(tabs) : id.n # n
           N == 1..(Len(tabs) + 1)
           holder == [n \in N |-> CHOOSE i \in DOMAIN tabs : tabs[i].id.n = n]
<1>1. Len(tabs) \in Nat /\ DOMAIN tabs = 1..Len(tabs)
  BY LenProperties
<1>2. \E n \in N : free(n)
  <2> SUFFICES ASSUME \A n \in N : ~free(n) PROVE FALSE
    OBVIOUS
  <2>1. \A n \in N : \E i \in DOMAIN tabs : tabs[i].id.n = n
    BY DEF Ids
  <2>2. \A n \in N : holder[n] \in DOMAIN tabs /\ tabs[holder[n]].id.n = n
    BY <2>1
  <2>3. holder \in [N -> 1..Len(tabs)]
    BY <1>1, <2>2
  <2>4. /\ IsFiniteSet(N) /\ IsFiniteSet(1..Len(tabs))
        /\ Cardinality(1..Len(tabs)) < Cardinality(N)
    <3>1. /\ IsFiniteSet(N)
          /\ Cardinality(N) = IF 1 > Len(tabs) + 1 THEN 0 ELSE (Len(tabs) + 1) - 1 + 1
      BY <1>1, FS_Interval
    <3>2. /\ IsFiniteSet(1..Len(tabs))
          /\ Cardinality(1..Len(tabs)) = IF 1 > Len(tabs) THEN 0 ELSE Len(tabs) - 1 + 1
      BY <1>1, FS_Interval
    <3>. QED
      BY <1>1, <3>1, <3>2
  <2> HIDE DEF holder, N
  <2>5. PICK m \in N, n \in N : m # n /\ holder[m] = holder[n]
    BY <2>3, <2>4, FS_PigeonHole
  <2>. QED
    BY <2>2, <2>5
<1>3. NewNumber \in N /\ free(NewNumber)
  BY <1>2 DEF NewNumber
<1>. QED
  BY <1>1, <1>3

(* A tab is made for a route. It has a name of its own if it is a query's  *)
(* or if no tab has this route.                                            *)
LEMMA NewTab ==
  ASSUME tabs \in Seq(Tabs), NEW r \in Routes
  PROVE  /\ TabFromRoute(r) \in Tabs /\ TabFromRoute(r).route = r
         /\ r.kind # "query" => TabFromRoute(r).id = IdOf(r, 0)
         /\ (r.kind = "query" \/ Matching(tabs, r) = {}) => TabFromRoute(r).id \notin Ids(tabs)
<1> DEFINE tab == TabFromRoute(r)
<1>1. \A i \in DOMAIN tabs : tabs[i] \in Tabs
  BY ElementOfSeq, LenProperties
<1>2. /\ tab = [id |-> tab.id, route |-> r]
      /\ tab.id = [of |-> r, n |-> tab.id.n] /\ tab.id.n \in Nat
      /\ r.kind = "query" => tab.id.n = NewNumber
      /\ r.kind # "query" => tab.id = IdOf(r, 0)
  BY NumberIsNew DEF TabFromRoute, IdOf
<1> HIDE DEF tab
<1>3. tab \in Tabs
  <2>1. tab.id \in [of : Routes, n : Nat] /\ tab.id.of = r /\ tab.route = r
    BY <1>2
  <2>2. tab \in [id : [of : Routes, n : Nat], route : Routes]
    BY <1>2, <2>1
  <2>. QED
    BY <2>1, <2>2 DEF Tabs
<1>4. r.kind = "query" => tab.id \notin Ids(tabs)
  BY <1>2, NumberIsNew
<1>5. ASSUME Matching(tabs, r) = {} PROVE tab.id \notin Ids(tabs)
  <2>1. \A i \in DOMAIN tabs : tabs[i].id.of # r
    BY <1>1, <1>5 DEF Matching, Tabs
  <2>2. tab.id.of = r
    BY <1>2
  <2>. QED
    BY <2>1, <2>2 DEF Ids
<1>. QED
  BY <1>2, <1>3, <1>4, <1>5 DEF tab

LEMMA Placed ==
  ASSUME NEW list, NEW id \in Ids(list)
  PROVE  /\ Place(list, id) \in DOMAIN list /\ list[Place(list, id)].id = id
         /\ TabOf(list, id) = list[Place(list, id)]
  BY DEF Ids, Place, TabOf

LEMMA UrlOfTab ==
  ASSUME tabs \in Seq(Tabs), NEW id
  PROVE  RouteFromTab(tabs, id) \in Routes \cup {Welcome}
<1>1. ASSUME id \in Ids(tabs) PROVE TabOf(tabs, id).route \in Routes
  BY <1>1, Placed, ElementOfSeq, LenProperties DEF Tabs
<1>. QED
  BY <1>1 DEF RouteFromTab

(* A list that replaces the tabs.                                          *)
LEMMA TabsSet ==
  ASSUME TabsInv, NEW list, list \in Seq(Tabs), tabs' = list,
         ~overlapped' => ~overlapped /\ Distinct(list),
         stored' = stored, calls' \subseteq calls, route' \in Routes \cup {Welcome}
  PROVE  TabsInv'
<1>1. TabTypes'
  BY DEF TabsInv, TabTypes
<1>2. ~overlapped' => Distinct(tabs') /\ Distinct(stored'.tabs)
  BY DEF TabsInv
<1>. QED
  BY <1>1, <1>2 DEF TabsInv

LEMMA TabsKept ==
  ASSUME TabsInv, UNCHANGED <<tabs, stored, overlapped>>, calls' \subseteq calls,
         route' \in Routes \cup {Welcome}
  PROVE  TabsInv'
<1>1. tabs \in Seq(Tabs) /\ (~overlapped => Distinct(tabs))
  BY DEF TabsInv, TabTypes
<1>. QED
  BY <1>1, TabsSet

LEMMA TabsStep == TabsInv /\ SessionInv /\ [ShellNext]_shellVars => TabsInv'
<1> SUFFICES ASSUME TabsInv, SessionInv, [ShellNext]_shellVars PROVE TabsInv'
  OBVIOUS
<1>0. /\ tabs \in Seq(Tabs) /\ stored.tabs \in Seq(Tabs) /\ route \in Routes \cup {Welcome}
      /\ \A k \in calls : k.tabs \in Seq(Tabs)
      /\ ~overlapped => Distinct(tabs) /\ Distinct(stored.tabs)
  BY DEF TabsInv, TabTypes
<1>1. CASE RunEffects
  <2>1. AfterEffects /\ UNCHANGED <<calls, overlapped>>
    BY <1>1 DEF RunEffects
  <2>2. StoreSession
    BY <2>1, Zenon DEF AfterEffects
  <2>3. stored'.tabs = tabs \/ stored'.tabs = stored.tabs
    BY <2>2, Stored
  <2>4. Restores => ~Opens
    BY DEF Restores, Opens, RouteEffect
  <2>5. /\ Restores => tabs' = stored.tabs
        /\ Opens => tabs' = Append(tabs, TabFromRoute(route))
        /\ ~Restores /\ ~Opens => tabs' = tabs
    BY <2>1, <2>4 DEF AfterEffects
  <2>6. route' \in Routes \cup {Welcome}
    <3>1. route' = RouteFromTab(tabs, active) \/ route' = route
      BY <2>1, Zenon DEF AfterEffects
    <3>. QED
      BY <1>0, <3>1, UrlOfTab
  <2>7. ASSUME Opens
        PROVE  /\ Append(tabs, TabFromRoute(route)) \in Seq(Tabs)
               /\ ~overlapped => Distinct(Append(tabs, TabFromRoute(route)))
    <3>1. route \in Routes /\ Matching(tabs, route) = {}
      BY <1>0, <2>7 DEF Opens, RouteEffect
    <3>2. TabFromRoute(route) \in Tabs /\ TabFromRoute(route).id \notin Ids(tabs)
      BY <1>0, <3>1, NewTab
    <3>. QED
      BY <1>0, <3>2, AppendTabs
  <2>8. tabs' \in Seq(Tabs) /\ (~overlapped => Distinct(tabs'))
    BY <1>0, <2>4, <2>5, <2>7
  <2>9. TabTypes'
    BY <1>0, <2>1, <2>3, <2>6, <2>8 DEF TabTypes
  <2>10. ~overlapped' => Distinct(tabs') /\ Distinct(stored'.tabs)
    BY <1>0, <2>1, <2>3, <2>8
  <2>. QED
    BY <2>9, <2>10 DEF TabsInv
<1>2. ASSUME NEW id, DuplicateQueryTab(id) PROVE TabsInv'
  <2> DEFINE r == TabOf(tabs, id).route
             tab == TabFromRoute(r)
             at == Place(tabs, id) + 1
  <2>1. /\ id \in Ids(tabs) /\ r.kind = "query" /\ tabs' = InsertAt(tabs, at, tab)
        /\ UNCHANGED <<stored, calls, route, overlapped>>
    BY <1>2 DEF DuplicateQueryTab, SetTabs, sessionVars, historyVars
  <2>2. at \in 1..(Len(tabs) + 1) /\ r \in Routes
    BY <1>0, <2>1, Placed, ElementOfSeq, LenProperties DEF Tabs
  <2>3. tab \in Tabs /\ tab.id \notin Ids(tabs)
    BY <1>0, <2>1, <2>2, NewTab
  <2> HIDE DEF r, tab, at
  <2>4. /\ InsertAt(tabs, at, tab) \in Seq(Tabs)
        /\ ~overlapped => Distinct(InsertAt(tabs, at, tab))
    BY <1>0, <2>2, <2>3, InsertedAt, InsertTabs
  <2>. QED
    BY <1>0, <2>1, <2>4, TabsSet
<1>3. ASSUME NEW dropped, tabs' = Omit(tabs, dropped),
             UNCHANGED <<stored, calls, route, overlapped>>
      PROVE  TabsInv'
  BY <1>0, <1>3, OmitTabs, TabsSet
<1>4. ASSUME NEW id, CloseTab(id) PROVE TabsInv'
  BY <1>3, <1>4 DEF CloseTab, SetTabs, Without, sessionVars, historyVars
<1>5. ASSUME NEW ids, NEW then, CloseTabs(ids, then) PROVE TabsInv'
  BY <1>3, <1>5 DEF CloseTabs, SetTabs, Without, sessionVars, historyVars
<1>6. ASSUME NEW id, CloseOtherTabs(id) \/ CloseTabsToRight(id) PROVE TabsInv'
  BY <1>5, <1>6 DEF CloseOtherTabs, CloseTabsToRight
<1>7. ASSUME NEW id, NEW r \in Routes, RenameTab(id, r) PROVE TabsInv'
  <2> DEFINE tab == TabFromRoute(r)
             list == [i \in DOMAIN tabs |-> IF tabs[i].id = id THEN tab ELSE tabs[i]]
  <2>1. /\ r.kind = "table" /\ tabs' = list
        /\ ~overlapped' => ~overlapped /\ IdOf(r, 0) \notin Ids(tabs)
        /\ UNCHANGED <<stored, calls, route>>
    BY <1>7 DEF RenameTab, SetTabs, sessionVars
  <2>2. tab \in Tabs /\ tab.id = IdOf(r, 0)
    BY <1>0, <2>1, NewTab
  <2>3. Len(tabs) \in Nat /\ DOMAIN tabs = 1..Len(tabs) /\ \A i \in DOMAIN tabs : tabs[i] \in Tabs
    BY <1>0, ElementOfSeq, LenProperties
  <2> HIDE DEF tab
  <2>4. list \in [1..Len(tabs) -> Tabs]
    BY <2>2, <2>3
  <2>5. list \in Seq(Tabs)
    BY <2>3, <2>4
  <2>6. ASSUME ~overlapped' PROVE Distinct(list)
    BY <1>0, <2>1, <2>2, <2>6 DEF Distinct, Ids
  <2> HIDE DEF list
  <2>. QED
    BY <1>0, <2>1, <2>5, <2>6, TabsSet
<1>8. ASSUME NEW id, SetActive(id) PROVE TabsInv'
  BY <1>0, <1>8, TabsKept DEF SetActive, sessionVars, historyVars
<1>9. ASSUME NEW right, CycleTab(right) PROVE TabsInv'
  BY <1>8, <1>9 DEF CycleTab
<1>10. ASSUME NEW r \in Routes, OpenTab(r) PROVE TabsInv'
  <2> DEFINE tab == TabFromRoute(r)
  <2>1. UNCHANGED <<stored, calls, route, overlapped>>
    BY <1>10 DEF OpenTab, sessionVars, historyVars
  <2>2. CASE tab.id \in Ids(tabs)
    <3>1. tabs' = tabs
      BY <1>10, <2>2, Zenon DEF OpenTab
    <3>. QED
      BY <1>0, <2>1, <3>1, TabsKept
  <2>3. CASE tab.id \notin Ids(tabs)
    <3>1. tabs' = Append(tabs, tab)
      BY <1>10, <2>3, Zenon DEF OpenTab, SetTabs
    <3>2. tab \in Tabs
      BY <1>0, NewTab
    <3>3. /\ Append(tabs, tab) \in Seq(Tabs)
          /\ ~overlapped => Distinct(Append(tabs, tab))
      BY <1>0, <2>3, <3>2, AppendTabs
    <3>. QED
      BY <1>0, <2>1, <3>1, <3>3, TabsSet
  <2>. QED
    BY <2>2, <2>3
<1>11. ASSUME NEW from \in DOMAIN tabs, NEW to \in DOMAIN tabs, ReorderTabs(from, to)
       PROVE  TabsInv'
  <2> DEFINE less == RemoveAt(tabs, from)
             list == InsertAt(less, to, tabs[from])
  <2>1. tabs' = list /\ UNCHANGED <<stored, calls, route, overlapped>>
    BY <1>11 DEF ReorderTabs, SetTabs, sessionVars, historyVars
  <2>2. Len(tabs) \in Nat /\ DOMAIN tabs = 1..Len(tabs) /\ tabs[from] \in Tabs
    BY <1>0, ElementOfSeq, LenProperties
  <2>3. less \in Seq(Tabs) /\ Len(less) = Len(tabs) - 1
    BY <1>0, RemovedAt
  <2>4. ~overlapped => Distinct(less) /\ tabs[from].id \notin Ids(less)
    BY <1>0, RemoveTabs
  <2> HIDE DEF less
  <2>5. to \in 1..(Len(less) + 1)
    BY <2>2, <2>3
  <2>6. list \in Seq(Tabs) /\ (~overlapped => Distinct(list))
    BY <2>2, <2>3, <2>4, <2>5, InsertedAt, InsertTabs
  <2> HIDE DEF list
  <2>. QED
    BY <1>0, <2>1, <2>6, TabsSet
<1>12. ASSUME NEW c, NEW d, HandleDatabaseDropped(c, d) PROVE TabsInv'
  BY <1>3, <1>12 DEF HandleDatabaseDropped, SetTabs, Without, sessionVars, historyVars
<1>13. ASSUME NEW c, NEW id, StartDrop(c, id) PROVE TabsInv'
  <2>1. /\ calls' = calls \cup {[connection |-> c, id |-> id, tabs |-> tabs, active |-> active]}
        /\ UNCHANGED <<tabs, stored, route, overlapped>>
    BY <1>13 DEF StartDrop, sessionVars, historyVars
  <2>2. TabTypes'
    BY <1>0, <2>1 DEF TabTypes
  <2>. QED
    BY <1>0, <2>1, <2>2 DEF TabsInv
<1>14. ASSUME NEW id, DropTable(id) PROVE TabsInv'
  BY <1>13, <1>14 DEF DropTable
<1>15. ASSUME NEW c, DeleteConnection(c) PROVE TabsInv'
  BY <1>13, <1>15 DEF DeleteConnection
<1>16. CASE SignIn \/ Unauthorized \/ \E answer \in {"login", "ready"} : CheckAuth(answer)
  BY <1>0, <1>16, TabsKept DEF SignIn, Unauthorized, CheckAuth, historyVars
<1>17. CASE HandleLogout
  BY <1>0, <1>17, NoTabs, TabsSet DEF HandleLogout, historyVars
<1>18. ASSUME NEW r \in Routes \cup {Welcome}, PopState(r) PROVE TabsInv'
  BY <1>0, <1>18, TabsKept DEF PopState, sessionVars
<1>19. ASSUME NEW r \in Routes \cup {Welcome}, Reload(r) PROVE TabsInv'
  BY <1>0, <1>19, NoTabs, TabsSet DEF Reload
<1>20. ASSUME NEW list, ListAnswers(list) PROVE TabsInv'
  BY <1>0, <1>20, TabsKept DEF ListAnswers, historyVars
<1>21. CASE ListFails
  BY <1>0, <1>21, TabsKept DEF ListFails, historyVars
<1>22. ASSUME NEW k \in calls, NEW dropped, tabs' = Omit(k.tabs, dropped),
              overlapped' = (overlapped \/ k.tabs # tabs \/ k.active # active),
              calls' = calls \ {k}, UNCHANGED <<stored, route>>
       PROVE  TabsInv'
  <2>1. k.tabs \in Seq(Tabs) /\ (~overlapped' => ~overlapped /\ Distinct(k.tabs))
    BY <1>0, <1>22
  <2>2. /\ Omit(k.tabs, dropped) \in Seq(Tabs)
        /\ ~overlapped' => ~overlapped /\ Distinct(Omit(k.tabs, dropped))
    BY <2>1, OmitTabs
  <2>. QED
    BY <1>0, <1>22, <2>2, TabsSet
<1>23. ASSUME NEW k \in calls, ConnectionDeleted(k) PROVE TabsInv'
  BY <1>22, <1>23 DEF ConnectionDeleted, sessionVars
<1>24. ASSUME NEW k \in calls, TableDropped(k) PROVE TabsInv'
  BY <1>22, <1>24 DEF TableDropped, SetTabs, Without, sessionVars
<1>25. ASSUME NEW k \in calls, DropFails(k) PROVE TabsInv'
  BY <1>0, <1>25, TabsKept DEF DropFails, sessionVars, historyVars
<1>26. ASSUME NEW s \in OtherSessions, OtherWindowStores(s) PROVE TabsInv'
  <2>1. /\ stored'.tabs \in {stored.tabs, s.tabs}
        /\ ~overlapped' => ~overlapped /\ Distinct(stored'.tabs)
        /\ UNCHANGED <<tabs, route, calls>>
    BY <1>26 DEF OtherWindowStores
  <2>2. stored'.tabs \in Seq(Tabs)
    BY <1>0, <2>1, SessionsAssumption
  <2>. QED
    BY <1>0, <2>1, <2>2 DEF TabsInv, TabTypes
<1>27. CASE UNCHANGED shellVars
  BY <1>0, <1>27, TabsKept DEF shellVars
<1>. QED
  BY <1>1, <1>2, <1>4, <1>6, <1>7, <1>8, <1>9, <1>10, <1>11, <1>12, <1>14, <1>15, <1>16,
     <1>17, <1>18, <1>19, <1>20, <1>21, <1>23, <1>24, <1>25, <1>26, <1>27
     DEF ShellNext, WindowNext, OthersNext, UserNext, AnswersNext

LEMMA TabsHold == ShellSpec => [](TabsInv /\ SessionInv)
<1>1. ShellInit => TabsInv /\ SessionInv
  BY NoTabs DEF ShellInit, TabsInv, TabTypes, SessionInv
<1>. QED
  BY <1>1, TabsStep, SessionStep, PTL DEF ShellSpec

(* No two open tabs have the same id, unless a handler has set tabs it had *)
(* kept over those opened or closed since, or a renamed table was open.    *)
THEOREM NoTabTwice == ShellSpec => []TabsAreDistinct
<1>1. ASSUME TabsInv PROVE TabsAreDistinct
  <2> SUFFICES ASSUME ~overlapped PROVE Cardinality(Ids(tabs)) = Len(tabs)
    BY DEF TabsAreDistinct
  <2> DEFINE names == [i \in 1..Len(tabs) |-> tabs[i].id]
  <2>1. Len(tabs) \in Nat /\ DOMAIN tabs = 1..Len(tabs) /\ Distinct(tabs)
    BY <1>1, LenProperties DEF TabsInv, TabTypes
  <2>2. names \in [1..Len(tabs) -> Ids(tabs)]
    BY <2>1 DEF Ids
  <2>3. \A i, j \in DOMAIN names : names[i] = names[j] => i = j
    BY <2>1 DEF Distinct
  <2>4. \A id \in Ids(tabs) : \E i \in 1..Len(tabs) : names[i] = id
    BY <2>1 DEF Ids
  <2> HIDE DEF names
  <2>5. names \in Bijection(1..Len(tabs), Ids(tabs))
    BY <2>2, <2>3, <2>4 DEF Bijection, Injection, Surjection, IsInjective
  <2>6. /\ IsFiniteSet(1..Len(tabs))
        /\ Cardinality(1..Len(tabs)) = IF 1 > Len(tabs) THEN 0 ELSE Len(tabs) - 1 + 1
    BY <2>1, FS_Interval
  <2>7. Cardinality(Ids(tabs)) = Cardinality(1..Len(tabs))
    BY <2>5, <2>6, FS_Bijection DEF ExistsBijection
  <2>. QED
    BY <2>1, <2>6, <2>7
<1>. QED
  BY <1>1, TabsHold, PTL

-----------------------------------------------------------------------------
(* When the effects that depend on the URL have run, it is that of the     *)
(* active tab, unless it waits for its own to be opened; and the effect    *)
(* that opens it has left it alone only if its connection is not there.    *)
Mirrored == changed \cap {"active", "tabs", "route", "restored", "connections", "loaded"} = {}
Answered == changed \cap {"route", "connections", "auth", "restored"} = {}

UrlInv ==
  /\ (restored /\ Mirrored) =>
       (~pendingRoute /\ route = RouteFromTab(tabs, active)) \/ WaitsForRoute
  /\ (restored /\ auth = "ready" /\ WaitsForRoute /\ Answered) =>
       route.connection \notin connections

(* The effects are still to run.                                           *)
LEMMA UrlToRun ==
  ASSUME ~Mirrored', ~Answered'
  PROVE  UrlInv'
  BY DEF UrlInv

LEMMA UrlSame ==
  ASSUME UrlInv, Quiet, changed' = {} \/ changed' = {"auth"},
         UNCHANGED <<tabs, active, route, restored, pendingRoute, connections, loaded>>,
         auth' = auth \/ ~Answered'
  PROVE  UrlInv'
<1>1. WaitsForRoute' = WaitsForRoute
  BY DEF WaitsForRoute, Matching
<1>2. RouteFromTab(tabs, active)' = RouteFromTab(tabs, active)
  BY DEF RouteFromTab, Ids, TabOf
<1>3. Mirrored /\ Answered
  BY DEF Quiet, Mirrored, Answered
<1>. QED
  BY <1>1, <1>2, <1>3 DEF UrlInv

(* A tab is opened, closed or activated while the URL does not wait, or    *)
(* waits for a connection that is not there.                               *)
LEMMA UrlOfTabs ==
  ASSUME UrlInv, Quiet, ~Mirrored' \/ (changed' = {} /\ UNCHANGED <<tabs, active>>),
         UNCHANGED <<route, restored, pendingRoute, connections, loaded>>, auth' = "ready" => auth = "ready"
  PROVE  UrlInv'
<1>1. Mirrored /\ Answered
  BY DEF Quiet, Mirrored, Answered
<1>2. CASE changed' = {} /\ UNCHANGED <<tabs, active>>
  <2>1. WaitsForRoute' = WaitsForRoute
    BY <1>2 DEF WaitsForRoute, Matching
  <2>2. RouteFromTab(tabs, active)' = RouteFromTab(tabs, active)
    BY <1>2 DEF RouteFromTab, Ids, TabOf
  <2>. QED
    BY <1>1, <2>1, <2>2 DEF UrlInv
<1>3. CASE ~Mirrored'
  <2> SUFFICES ASSUME restored', auth' = "ready", WaitsForRoute'
               PROVE  route'.connection \notin connections'
    BY <1>3 DEF UrlInv
  <2>1. restored /\ auth = "ready" /\ pendingRoute
    BY DEF WaitsForRoute
  <2>2. WaitsForRoute
    BY <1>1, <2>1 DEF UrlInv
  <2>. QED
    BY <1>1, <2>1, <2>2 DEF UrlInv
<1>. QED
  BY <1>2, <1>3

LEMMA UrlStep == UrlInv /\ TabsInv /\ SessionInv /\ [ShellNext]_shellVars => UrlInv'
<1> SUFFICES ASSUME UrlInv, TabsInv, SessionInv, [ShellNext]_shellVars PROVE UrlInv'
  OBVIOUS
<1>0. /\ tabs \in Seq(Tabs) /\ route \in Routes \cup {Welcome}
      /\ \A k \in calls : restored
  BY DEF TabsInv, TabTypes, SessionInv
<1>1. CASE RunEffects
  <2>1. AfterEffects /\ UNCHANGED <<auth, connections, loaded>>
    BY <1>1 DEF RunEffects
  <2>2. restored' = (restored \/ Restores)
    BY <2>1, Zenon DEF AfterEffects
  <2>3. IF MirrorEffect
        THEN pendingRoute' = FALSE /\ route' = RouteFromTab(tabs, active)
        ELSE UNCHANGED <<pendingRoute, route>>
    BY <2>1, Zenon DEF AfterEffects
  <2>4. Restores => ~Opens
    BY DEF Restores, Opens, RouteEffect
  <2>5. /\ Opens => tabs' = Append(tabs, TabFromRoute(route))
        /\ ~Restores /\ ~Opens => tabs' = tabs
    BY <2>1, <2>4 DEF AfterEffects
  <2>6. /\ "tabs" \notin changed' => tabs' = tabs
        /\ "active" \notin changed' => active' = active
        /\ "route" \notin changed' => route' = route
        /\ "restored" \notin changed' => restored' = restored
    BY <1>1 DEF RunEffects
  <2>7. ASSUME restored', Mirrored'
        PROVE  (~pendingRoute' /\ route' = RouteFromTab(tabs, active)') \/ WaitsForRoute'
    <3>1. UNCHANGED <<tabs, active, route, restored>> /\ restored
      BY <2>6, <2>7 DEF Mirrored
    <3>2. RouteFromTab(tabs, active)' = RouteFromTab(tabs, active)
      BY <3>1 DEF RouteFromTab, Ids, TabOf
    <3>3. CASE MirrorEffect
      BY <2>3, <3>1, <3>2, <3>3
    <3>4. CASE ~MirrorEffect
      <4>1. pendingRoute' = pendingRoute
        BY <2>3, <3>4
      <4>2. WaitsForRoute' = WaitsForRoute
        BY <2>1, <3>1, <4>1 DEF WaitsForRoute, Matching
      <4>3. Mirrored \/ WaitsForRoute
        BY <3>1, <3>4 DEF MirrorEffect, Mirrored
      <4>. QED
        BY <3>1, <3>2, <4>1, <4>2, <4>3 DEF UrlInv
    <3>. QED
      BY <3>3, <3>4
  <2>8. ASSUME restored', auth' = "ready", WaitsForRoute', Answered'
        PROVE  route'.connection \notin connections'
    <3>1. UNCHANGED <<route, restored>> /\ restored /\ auth = "ready"
      BY <2>1, <2>6, <2>8 DEF Answered
    <3>2. ~MirrorEffect /\ pendingRoute
      BY <2>3, <2>8 DEF WaitsForRoute
    <3>3. Matching(tabs', route) = {}
      BY <2>8, <3>1 DEF WaitsForRoute, Matching
    <3>4. ~Opens
      <4> SUFFICES ASSUME Opens PROVE FALSE
        OBVIOUS
      <4>1. route \in Routes
        BY <1>0 DEF Opens, RouteEffect
      <4>2. TabFromRoute(route) \in Tabs /\ TabFromRoute(route).route = route
        BY <1>0, <4>1, NewTab
      <4>3. tabs' = Append(tabs, TabFromRoute(route))
        BY <2>5
      <4>4. /\ Len(tabs) + 1 \in DOMAIN Append(tabs, TabFromRoute(route))
            /\ Append(tabs, TabFromRoute(route))[Len(tabs) + 1] = TabFromRoute(route)
        BY <1>0, <4>2, AppendProperties, LenProperties
      <4>. QED
        BY <3>3, <4>2, <4>3, <4>4 DEF Matching
    <3>5. tabs' = tabs
      BY <2>5, <3>1, <3>4 DEF Restores
    <3>6. WaitsForRoute
      BY <2>1, <2>8, <3>1, <3>2, <3>5 DEF WaitsForRoute, Matching
    <3>7. CASE Answered
      BY <2>1, <3>1, <3>6, <3>7 DEF UrlInv
    <3>8. CASE ~Answered
      <4>1. RouteFromTab(tabs, active) # route
        <5>1. route # Welcome /\ \A i \in DOMAIN tabs : tabs[i].route # route
          BY <3>6 DEF WaitsForRoute, Matching
        <5>. QED
          BY <5>1, Placed DEF RouteFromTab
      <4>2. RouteEffect
        BY <3>1, <3>6, <3>8, <4>1 DEF RouteEffect, Answered, WaitsForRoute
      <4>. QED
        BY <2>1, <3>1, <3>4, <3>6, <4>2 DEF Opens, WaitsForRoute
    <3>. QED
      BY <3>7, <3>8
  <2>. QED
    BY <2>7, <2>8 DEF UrlInv
<1>2. ASSUME Quiet, NEW list, NEW id, SetTabs(list, id),
             UNCHANGED <<auth, route, restored, pendingRoute, connections, loaded>>
      PROVE  UrlInv'
  BY <1>2, UrlOfTabs DEF SetTabs, Mirrored
<1>3. ASSUME NEW id,
             \/ DuplicateQueryTab(id) \/ CloseTab(id)
             \/ CloseOtherTabs(id) \/ CloseTabsToRight(id)
             \/ \E r \in Routes : RenameTab(id, r)
      PROVE  UrlInv'
  BY <1>2, <1>3 DEF DuplicateQueryTab, CloseTab, CloseOtherTabs,
     CloseTabsToRight, CloseTabs, RenameTab, sessionVars
<1>4. ASSUME NEW id, SetActive(id) PROVE UrlInv'
  <2>1. ~Mirrored' \/ (changed' = {} /\ UNCHANGED <<tabs, active>>)
    BY <1>4 DEF SetActive, Mirrored
  <2>. QED
    BY <1>4, <2>1, UrlOfTabs DEF SetActive, sessionVars
<1>5. ASSUME NEW right, CycleTab(right) PROVE UrlInv'
  BY <1>4, <1>5 DEF CycleTab
<1>6. ASSUME NEW r, OpenTab(r) PROVE UrlInv'
  <2> DEFINE tab == TabFromRoute(r)
  <2>1. Quiet /\ UNCHANGED <<auth, route, restored, pendingRoute, connections, loaded>>
    BY <1>6 DEF OpenTab, sessionVars
  <2>2. CASE tab.id \in Ids(tabs)
    <3>1. active' = tab.id /\ tabs' = tabs /\ changed' = IF tab.id = active THEN {} ELSE {"active"}
      BY <1>6, <2>2, Zenon DEF OpenTab
    <3>2. ~Mirrored' \/ (changed' = {} /\ UNCHANGED <<tabs, active>>)
      BY <3>1 DEF Mirrored
    <3>. QED
      BY <2>1, <3>2, UrlOfTabs
  <2>3. CASE tab.id \notin Ids(tabs)
    <3>1. SetTabs(Append(tabs, tab), tab.id)
      BY <1>6, <2>3, Zenon DEF OpenTab
    <3>. QED
      BY <1>2, <2>1, <3>1
  <2>. QED
    BY <2>2, <2>3
<1>7. ASSUME NEW from, NEW to, ReorderTabs(from, to) PROVE UrlInv'
  BY <1>2, <1>7 DEF ReorderTabs, sessionVars
<1>8. ASSUME NEW c, NEW d, HandleDatabaseDropped(c, d) PROVE UrlInv'
  BY <1>2, <1>8 DEF HandleDatabaseDropped, sessionVars
<1>9. ASSUME Quiet, UNCHANGED <<auth, tabs, active, route, restored, pendingRoute,
                               connections, loaded, changed>>
      PROVE  UrlInv'
  BY <1>9, UrlSame DEF Quiet
<1>10. ASSUME NEW c, NEW id, DropTable(id) \/ DeleteConnection(c) PROVE UrlInv'
  BY <1>9, <1>10 DEF DropTable, DeleteConnection, StartDrop, sessionVars
<1>11. CASE SignIn \/ Unauthorized \/ \E answer \in {"login", "ready"} : CheckAuth(answer)
  <2>1. changed' = {"auth"} /\ ~Answered'
    BY <1>11 DEF SignIn, Unauthorized, CheckAuth, Answered
  <2>. QED
    BY <1>11, <2>1, UrlSame DEF SignIn, Unauthorized, CheckAuth
<1>12. CASE HandleLogout
  <2>1. ~Mirrored' /\ ~Answered'
    BY <1>12 DEF HandleLogout, Mirrored, Answered
  <2>. QED
    BY <2>1, UrlToRun
<1>13. ASSUME NEW r, PopState(r) PROVE UrlInv'
  <2>1. ~Mirrored' /\ ~Answered'
    BY <1>13 DEF PopState, Mirrored, Answered
  <2>. QED
    BY <2>1, UrlToRun
<1>14. ASSUME NEW r, Reload(r) PROVE UrlInv'
  BY <1>14 DEF Reload, UrlInv
<1>15. ASSUME NEW list, ListAnswers(list) PROVE UrlInv'
  <2>1. ~Mirrored' /\ ~Answered'
    BY <1>15 DEF ListAnswers, Mirrored, Answered
  <2>. QED
    BY <2>1, UrlToRun
<1>16. CASE ListFails
  <2>1. /\ Quiet /\ UNCHANGED <<auth, tabs, active, route, restored, pendingRoute, connections>>
        /\ loaded' = TRUE /\ changed' = IF loaded THEN {} ELSE {"loaded"}
    BY <1>16 DEF ListFails
  <2>2. Mirrored /\ Answered
    BY <2>1 DEF Quiet, Mirrored, Answered
  <2>3. WaitsForRoute' => WaitsForRoute
    BY <2>1 DEF WaitsForRoute, Matching
  <2>4. RouteFromTab(tabs, active)' = RouteFromTab(tabs, active)
    BY <2>1 DEF RouteFromTab, Ids, TabOf
  <2>5. Mirrored' => (WaitsForRoute => WaitsForRoute')
    BY <2>1 DEF WaitsForRoute, Matching, Mirrored
  <2>. QED
    BY <2>1, <2>2, <2>3, <2>4, <2>5 DEF UrlInv
<1>17. ASSUME NEW k \in calls, ConnectionDeleted(k) PROVE UrlInv'
  <2>1. ~Mirrored' /\ ~Answered'
    BY <1>17 DEF ConnectionDeleted, Mirrored, Answered
  <2>. QED
    BY <2>1, UrlToRun
<1>18. ASSUME NEW k \in calls, TableDropped(k) PROVE UrlInv'
  BY <1>2, <1>18 DEF TableDropped, sessionVars
<1>19. ASSUME NEW k \in calls, DropFails(k) PROVE UrlInv'
  BY <1>9, <1>19 DEF DropFails, sessionVars
<1>20. ASSUME UNCHANGED <<auth, connections, loaded, tabs, active, route, restored,
                          pendingRoute, changed>>
       PROVE  UrlInv'
  <2>1. WaitsForRoute' = WaitsForRoute
    BY <1>20 DEF WaitsForRoute, Matching
  <2>2. RouteFromTab(tabs, active)' = RouteFromTab(tabs, active)
    BY <1>20 DEF RouteFromTab, Ids, TabOf
  <2>3. Mirrored' = Mirrored /\ Answered' = Answered
    BY <1>20 DEF Mirrored, Answered
  <2>. QED
    BY <1>20, <2>1, <2>2, <2>3 DEF UrlInv
<1>21. ASSUME NEW s, OtherWindowStores(s) PROVE UrlInv'
  BY <1>20, <1>21 DEF OtherWindowStores
<1>22. CASE UNCHANGED shellVars
  BY <1>20, <1>22 DEF shellVars
<1>. QED
  BY <1>1, <1>3, <1>4, <1>5, <1>6, <1>7, <1>8, <1>10, <1>11, <1>12, <1>13, <1>14, <1>15,
     <1>16, <1>17, <1>18, <1>19, <1>21, <1>22
     DEF ShellNext, WindowNext, OthersNext, UserNext, AnswersNext

(* When the effects have run the URL is that of the active tab. While it   *)
(* waits for a tab that is to be opened, either no list of connections has *)
(* come or nobody is signed in: with both, its connection is known not to  *)
(* be there, and it no longer waits.                                       *)
THEOREM UrlFollows == ShellSpec => []UrlIsActiveTab
<1>1. ShellInit => UrlInv
  BY DEF ShellInit, UrlInv
<1>2. UrlInv => UrlIsActiveTab
  <2> SUFFICES ASSUME UrlInv, Quiet, restored, auth = "ready" \/ ~pendingRoute,
                      pendingRoute => loaded
               PROVE  route = RouteFromTab(tabs, active)
    BY DEF UrlIsActiveTab
  <2>1. Mirrored /\ Answered
    BY DEF Quiet, Mirrored, Answered
  <2>2. ~WaitsForRoute
    BY <2>1 DEF UrlInv, WaitsForRoute
  <2>. QED
    BY <2>1, <2>2 DEF UrlInv
<1>. QED
  BY <1>1, <1>2, UrlStep, TabsHold, PTL DEF ShellSpec

-----------------------------------------------------------------------------
(* A row in neither "missed" nor with a change under way has one list      *)
(* asked for at most, which is the server's once it is read, as the list   *)
(* cached is when none is asked for.                                       *)
TreeTypes ==
  /\ DOMAIN lists = Keys /\ DOMAIN server = Keys
  /\ \A a \in asks : a = [n |-> a.n, key |-> a.key, list |-> a.list] /\ a.key \in Keys
  /\ \A w \in work : w.key \in Keys
  /\ known \subseteq Conns /\ known \cap gone = {}

(* What is open, and what is under way, is of a connection that was known. *)
Seen ==
  /\ \A k \in expanded : k[1] \in known \cup gone
  /\ \A w \in work : w.key[1] \in known \cup gone

OpenRows ==
  \A k \in expanded : (k[1] \in known /\ k \notin loading \cup errors) => lists[k] # NoList

RowInv(k) ==
  k \notin missed =>
    /\ \A a, b \in AsksFor(k) : a = b
    /\ (\A w \in work : w.key # k) =>
         /\ \A a \in AsksFor(k) : a.list \in {NoList, server[k]}
         /\ (AsksFor(k) = {} /\ k \notin errors) => lists[k] \in {NoList, server[k]}

TreeInv ==
  TreeTypes /\ expanded \subseteq Keys /\ Seen /\ OpenRows /\ \A k \in Keys : RowInv(k)

(* A list is asked for, after the change w if it is one.                   *)
LEMMA LoadKeeps ==
  ASSUME TreeInv, NEW k \in Keys, k[1] \in known \cup gone,
         NEW kept, Load(k, kept),
         DOMAIN kept = Keys, \A j \in Keys \ {k} : kept[j] = lists[j],
         expanded' \subseteq expanded \cup {k},
         work' \subseteq work, \A w \in work \ work' : w.key = k,
         UNCHANGED <<known, gone, server>>
  PROVE  TreeInv'
<1>1. PICK n : asks' = asks \cup {[n |-> n, key |-> k, list |-> NoList]}
  BY DEF Load
<1> DEFINE ask == [n |-> n, key |-> k, list |-> NoList]
<1>2. /\ ask = [n |-> ask.n, key |-> ask.key, list |-> ask.list]
      /\ ask.key = k /\ ask.list = NoList /\ asks' = asks \cup {ask}
  BY <1>1
<1> HIDE DEF ask
<1>3. /\ loading' = loading \cup {k} /\ errors' = errors \ {k} /\ lists' = kept
      /\ missed' = IF AsksFor(k) = {} THEN missed \ {k} ELSE missed \cup {k}
  BY DEF Load
<1>4. TreeTypes' /\ expanded' \subseteq Keys
  BY <1>2, <1>3 DEF TreeInv, TreeTypes
<1>5. OpenRows' /\ Seen'
  BY <1>3 DEF TreeInv, OpenRows, Seen
<1>6. ASSUME NEW j \in Keys \ {k} PROVE RowInv(j)'
  <2>1. AsksFor(j)' = AsksFor(j)
    BY <1>2, <1>6 DEF AsksFor
  <2>2. (\A w \in work' : w.key # j) => (\A w \in work : w.key # j)
    BY <1>6
  <2>3. RowInv(j) /\ lists'[j] = lists[j] /\ (j \in missed' <=> j \in missed)
        /\ (j \in errors' <=> j \in errors)
    BY <1>3, <1>6 DEF TreeInv
  <2>. QED
    BY <2>1, <2>2, <2>3 DEF RowInv
<1>7. RowInv(k)'
  <2>1. k \notin missed' => AsksFor(k)' = {ask}
    BY <1>2, <1>3 DEF AsksFor
  <2>. QED
    BY <1>2, <2>1 DEF RowInv
<1>. QED
  BY <1>4, <1>5, <1>6, <1>7 DEF TreeInv

LEMMA DroppedKeys ==
  ASSUME TreeInv, NEW k \in Keys
  PROVE  DOMAIN Dropped(k) = Keys /\ \A j \in Keys \ {k} : Dropped(k)[j] = lists[j]
  BY DEF TreeInv, TreeTypes, Dropped

(* What makes a change on the server: it is under way, or its rows are     *)
(* missed.                                                                 *)
LEMMA ServerChanges ==
  ASSUME TreeInv, DOMAIN server' = Keys, work \subseteq work', missed \subseteq missed',
         \A w \in work' : w.key \in Keys /\ w.key[1] \in known \cup gone,
         \A k \in Keys : server'[k] = server[k] \/ k \in missed' \/ \E w \in work' : w.key = k,
         UNCHANGED <<known, gone, expanded, lists, loading, errors, asks>>
  PROVE  TreeInv'
<1>1. TreeTypes' /\ expanded' \subseteq Keys
  BY DEF TreeInv, TreeTypes
<1>2. Seen' /\ OpenRows'
  BY DEF TreeInv, Seen, OpenRows
<1>3. ASSUME NEW k \in Keys PROVE RowInv(k)'
  <2>1. AsksFor(k)' = AsksFor(k)
    BY DEF AsksFor
  <2>2. RowInv(k)
    BY DEF TreeInv
  <2>. QED
    BY <2>1, <2>2 DEF RowInv
<1>. QED
  BY <1>1, <1>2, <1>3 DEF TreeInv

LEMMA ChangeKeeps ==
  ASSUME TreeInv, NEW kind, NEW k \in Keys, NEW now, NEW touched, Change(kind, k, now, touched),
         DOMAIN now = Keys, \A j \in Keys : j = k \/ j \in touched \/ now[j] = server[j]
  PROVE  TreeInv'
<1> DEFINE w == [kind |-> kind, key |-> k]
<1>1. w.key = k /\ work' = work \cup {w}
  BY DEF Change
<1> HIDE DEF w
<1>. QED
  BY <1>1, ServerChanges DEF Change, restVars, TreeInv, TreeTypes, Seen

LEMMA TreeStep == TreeInv /\ [SidebarNext]_treeVars => TreeInv'
<1> SUFFICES ASSUME TreeInv, [SidebarNext]_treeVars PROVE TreeInv'
  OBVIOUS
<1>0. /\ \A c \in Conns : <<c>> \in Keys
      /\ \A c \in Conns, d \in Dbs : <<c, d>> \in Keys
      /\ TableKeys \subseteq Keys
  BY DEF Keys, DbKeys, TableKeys
<1>1. ASSUME NEW a \in asks, ServerReads(a) PROVE TreeInv'
  <2> DEFINE b == [a EXCEPT !.list = server[a.key]]
  <2>1. a = [n |-> a.n, key |-> a.key, list |-> a.list] /\ a.key \in Keys
    BY DEF TreeInv, TreeTypes
  <2>2. /\ b = [n |-> b.n, key |-> b.key, list |-> b.list]
        /\ b.key = a.key /\ b.list = server[a.key] /\ asks' = (asks \ {a}) \cup {b}
    BY <1>1, <2>1 DEF ServerReads
  <2> HIDE DEF b
  <2>3. TreeTypes' /\ expanded' \subseteq Keys /\ Seen' /\ OpenRows'
    BY <1>1, <2>1, <2>2 DEF TreeInv, TreeTypes, Seen, OpenRows, ServerReads, restVars
  <2>4. ASSUME NEW k \in Keys PROVE RowInv(k)'
    <3>1. RowInv(k) /\ UNCHANGED <<missed, work, server, lists, errors>>
      BY <1>1 DEF TreeInv, ServerReads
    <3>2. CASE k = a.key
      <4>1. a \in AsksFor(k) /\ AsksFor(k)' = (AsksFor(k) \ {a}) \cup {b}
        BY <2>2, <3>2 DEF AsksFor
      <4>. QED
        BY <2>2, <3>1, <3>2, <4>1 DEF RowInv
    <3>3. CASE k # a.key
      <4>1. AsksFor(k)' = AsksFor(k)
        BY <2>2, <3>3 DEF AsksFor
      <4>. QED
        BY <3>1, <4>1 DEF RowInv
    <3>. QED
      BY <3>2, <3>3
  <2>. QED
    BY <2>3, <2>4 DEF TreeInv
<1>2. ASSUME NEW a \in asks, ListComes(a) \/ ListRefused(a) PROVE TreeInv'
  <2>1. /\ a.key \in Keys /\ asks' = asks \ {a} /\ loading' = loading \ {a.key}
        /\ UNCHANGED <<restVars, expanded, server, work, missed>>
        /\ \/ a.list # NoList /\ lists' = [lists EXCEPT ![a.key] = a.list] /\ errors' = errors
           \/ lists' = lists /\ errors' = errors \cup {a.key}
    BY <1>2 DEF TreeInv, TreeTypes, ListComes, ListRefused
  <2>2. /\ DOMAIN lists' = Keys
        /\ \A k \in Keys \ {a.key} : lists'[k] = lists[k] /\ (k \in errors' <=> k \in errors)
        /\ \/ a.list # NoList /\ lists'[a.key] = a.list
           \/ a.key \in errors'
    BY <2>1 DEF TreeInv, TreeTypes
  <2>3. TreeTypes' /\ expanded' \subseteq Keys
    BY <2>1, <2>2 DEF TreeInv, TreeTypes, restVars
  <2>4. Seen' /\ OpenRows'
    BY <2>1, <2>2 DEF TreeInv, Seen, OpenRows, restVars
  <2>5. ASSUME NEW k \in Keys PROVE RowInv(k)'
    <3>1. RowInv(k) /\ UNCHANGED <<missed, work, server>>
      BY <2>1 DEF TreeInv
    <3>2. CASE k = a.key
      <4>1. a \in AsksFor(k) /\ AsksFor(k)' = AsksFor(k) \ {a}
        BY <2>1, <3>2 DEF AsksFor
      <4>. QED
        BY <2>2, <3>1, <3>2, <4>1 DEF RowInv
    <3>3. CASE k # a.key
      <4>1. AsksFor(k)' = AsksFor(k)
        BY <2>1, <3>3 DEF AsksFor
      <4>. QED
        BY <2>2, <3>1, <3>3, <4>1 DEF RowInv
    <3>. QED
      BY <3>2, <3>3
  <2>. QED
    BY <2>3, <2>4, <2>5 DEF TreeInv
<1>3. ASSUME NEW w \in work, Changed(w) PROVE TreeInv'
  <2>1. w.key \in Keys /\ w.key[1] \in known \cup gone /\ DOMAIN lists = Keys
    BY DEF TreeInv, TreeTypes, Seen
  <2>2. expanded' \subseteq expanded \cup {w.key} /\ work' = work \ {w}
    BY <1>3 DEF Changed
  <2>3. CASE w.kind = "tableCreated"
    <3>1. Load(w.key, lists) /\ UNCHANGED <<known, gone, server>>
      BY <1>3, <2>3 DEF Changed, restVars
    <3>. QED
      BY <2>1, <2>2, <3>1, LoadKeeps
  <2>4. CASE w.kind # "tableCreated"
    <3>1. Load(w.key, Dropped(w.key)) /\ UNCHANGED <<known, gone, server>>
      BY <1>3, <2>4 DEF Changed, restVars
    <3>. QED
      BY <2>1, <2>2, <3>1, DroppedKeys, LoadKeeps
  <2>. QED
    BY <2>3, <2>4
<1>4. ASSUME NEW now \in SUBSET Conns, ConnectionsChange(now) PROVE TreeInv'
  <2>1. /\ DOMAIN lists' = Keys
        /\ \A k \in Keys : lists'[k] = NoList \/ lists'[k] = lists[k]
        /\ \A k \in Keys : k[1] \in now => lists'[k] = lists[k]
    BY <1>4 DEF ConnectionsChange
  <2>2. /\ now \cap gone = {} /\ known' = now /\ gone' = gone \cup (known \ now)
        /\ UNCHANGED <<expanded, loading, errors, asks, server, work, missed>>
    BY <1>4 DEF ConnectionsChange
  <2>3. TreeTypes' /\ expanded' \subseteq Keys
    BY <2>1, <2>2 DEF TreeInv, TreeTypes
  <2>4. Seen' /\ OpenRows'
    <3>1. Seen'
      BY <2>2 DEF TreeInv, Seen
    <3>2. ASSUME NEW k \in expanded, k[1] \in now, k \notin loading \cup errors
          PROVE  lists'[k] # NoList
      <4>1. k \in Keys /\ k[1] \in known
        BY <2>2, <3>2 DEF TreeInv, Seen
      <4>. QED
        BY <2>1, <3>2, <4>1 DEF TreeInv, OpenRows
    <3>. QED
      BY <2>2, <3>1, <3>2 DEF OpenRows
  <2>5. ASSUME NEW k \in Keys PROVE RowInv(k)'
    <3>1. RowInv(k) /\ AsksFor(k)' = AsksFor(k)
      BY <2>2 DEF TreeInv, AsksFor
    <3>. QED
      BY <2>1, <2>2, <3>1 DEF RowInv
  <2>. QED
    BY <2>3, <2>4, <2>5 DEF TreeInv
<1>5. ASSUME UNCHANGED <<known, gone, expanded, loadVars, server, work>> PROVE TreeInv'
  <2>1. TreeTypes' /\ expanded' \subseteq Keys /\ Seen' /\ OpenRows'
    BY <1>5 DEF TreeInv, TreeTypes, Seen, OpenRows, loadVars
  <2>2. ASSUME NEW k \in Keys PROVE RowInv(k)'
    <3>1. RowInv(k) /\ AsksFor(k)' = AsksFor(k)
      BY <1>5 DEF TreeInv, AsksFor, loadVars
    <3>. QED
      BY <1>5, <3>1 DEF RowInv, loadVars
  <2>. QED
    BY <2>1, <2>2 DEF TreeInv
<1>6. ASSUME NEW c, InfoComes(c) PROVE TreeInv'
  BY <1>5, <1>6 DEF InfoComes
<1>7. ASSUME NEW k \in Keys, Toggle(k) PROVE TreeInv'
  <2>1. DOMAIN lists = Keys
    BY DEF TreeInv, TreeTypes
  <2>2. CASE k \notin expanded /\ lists[k] = NoList
    BY <1>7, <2>1, <2>2, LoadKeeps DEF Toggle, restVars
  <2>3. CASE ~(k \notin expanded /\ lists[k] = NoList)
    <3>1. UNCHANGED <<known, gone, loadVars, server, work>>
      BY <1>7, <2>3 DEF Toggle, restVars
    <3>2. expanded' = expanded \ {k} \/ (expanded' = expanded \cup {k} /\ lists[k] # NoList)
      BY <1>7, <2>3 DEF Toggle
    <3>3. TreeTypes' /\ expanded' \subseteq Keys
      BY <3>1, <3>2 DEF TreeInv, TreeTypes, loadVars
    <3>4. Seen' /\ OpenRows'
      BY <1>7, <3>1, <3>2 DEF TreeInv, Seen, OpenRows, loadVars, Toggle
    <3>5. ASSUME NEW j \in Keys PROVE RowInv(j)'
      <4>1. RowInv(j) /\ AsksFor(j)' = AsksFor(j)
        BY <3>1 DEF TreeInv, AsksFor, loadVars
      <4>. QED
        BY <3>1, <4>1 DEF RowInv, loadVars
    <3>. QED
      BY <3>3, <3>4, <3>5 DEF TreeInv
  <2>. QED
    BY <2>2, <2>3
<1>8. ASSUME NEW k \in Keys, Refresh(k) PROVE TreeInv'
  <2>1. /\ k[1] \in known /\ Load(k, Dropped(k))
        /\ UNCHANGED <<known, gone, expanded, server, work>>
    BY <1>8 DEF Refresh, restVars
  <2>. QED
    BY <2>1, DroppedKeys, LoadKeeps
<1>9. ASSUME NEW kind, NEW k \in Keys, NEW S,
             Change(kind, k, [server EXCEPT ![k] = S], {})
      PROVE  TreeInv'
  <2> DEFINE now == [server EXCEPT ![k] = S]
  <2>1. DOMAIN now = Keys /\ \A j \in Keys : j = k \/ now[j] = server[j]
    BY DEF TreeInv, TreeTypes
  <2>2. Change(kind, k, now, {})
    BY <1>9
  <2> HIDE DEF now
  <2>. QED
    BY <2>1, <2>2, ChangeKeeps
<1>10. ASSUME NEW c \in Conns, NEW d \in Dbs, CreateDatabase(c, d) PROVE TreeInv'
  BY <1>0, <1>9, <1>10 DEF CreateDatabase
<1>11. ASSUME NEW k \in Keys, NEW t, CreateTable(k, t) \/ SaveView(k, t) PROVE TreeInv'
  BY <1>9, <1>11 DEF CreateTable, SaveView
<1>12. ASSUME NEW k \in TableKeys, NEW t, NEW to, CopyTable(k, t, to) PROVE TreeInv'
  BY <1>0, <1>9, <1>12 DEF CopyTable
<1>13. ASSUME NEW c \in Conns, NEW d \in Dbs, DropDatabase(c, d) PROVE TreeInv'
  <2> DEFINE now == [server EXCEPT ![<<c>>] = @ \ {d}, ![<<c, d>>] = {}]
  <2>1. /\ DOMAIN now = Keys
        /\ \A j \in Keys : j = <<c>> \/ j \in {<<c, d>>} \/ now[j] = server[j]
    BY DEF TreeInv, TreeTypes
  <2>2. Change("databaseDropped", <<c>>, now, {<<c, d>>})
    BY <1>13 DEF DropDatabase
  <2> HIDE DEF now
  <2>. QED
    BY <1>0, <2>1, <2>2, ChangeKeeps
<1>14. ASSUME NEW now, DOMAIN now = Keys, ChangeUnseen(now) PROVE TreeInv'
  <2>1. \A j \in Keys : server'[j] = server[j] \/ j \in missed'
    BY <1>14 DEF ChangeUnseen
  <2>. QED
    BY <1>14, <2>1, ServerChanges DEF ChangeUnseen, restVars, TreeInv, TreeTypes, Seen
<1>15. CASE UNCHANGED treeVars
  BY <1>5, <1>15 DEF treeVars, loadVars
<1>16. ASSUME NEW c \in known, ConnectionRow(c) \/ \E d \in Dbs : DatabaseRow(c, d)
       PROVE  TreeInv'
  <2>1. c \in Conns
    BY DEF TreeInv, TreeTypes
  <2>. QED
    BY <1>0, <1>7, <1>8, <1>10, <1>11, <1>13, <1>16, <2>1 DEF ConnectionRow, DatabaseRow
<1>17. ASSUME NEW k, NEW S, ChangeUnseen([server EXCEPT ![k] = S]) PROVE TreeInv'
  <2>1. DOMAIN [server EXCEPT ![k] = S] = Keys
    BY DEF TreeInv, TreeTypes
  <2>. QED
    BY <1>14, <1>17, <2>1
<1>18. ASSUME NEW k \in TableKeys, NEW t, NEW to, CopyFails(k, t, to) PROVE TreeInv'
  BY <1>17, <1>18 DEF CopyFails
<1>19. ASSUME NEW k \in TableKeys, NEW t, TableRow(k, t) PROVE TreeInv'
  BY <1>12, <1>18, <1>19 DEF TableRow
<1>20. ASSUME NEW k \in TableKeys, NEW tables, TablesElsewhere(k, tables) PROVE TreeInv'
  BY <1>17, <1>20 DEF TablesElsewhere
<1>21. ASSUME NEW c \in Conns, NEW dbs, DatabasesElsewhere(c, dbs) PROVE TreeInv'
  BY <1>14, <1>21 DEF DatabasesElsewhere
<1>. QED
  BY <1>1, <1>2, <1>3, <1>4, <1>6, <1>15, <1>16, <1>19, <1>20, <1>21 DEF SidebarNext

(* A row that is open has the list the server gave, or says why not, and   *)
(* when nothing is on its way the tree shows what the server has, unless   *)
(* it changed elsewhere or in a copy that failed.                          *)
THEOREM TreeCurrent == SidebarSpec => []TreeIsCurrent
<1>1. SidebarInit => TreeInv
  BY DEF SidebarInit, TreeInv, TreeTypes, Seen, OpenRows, RowInv, AsksFor
<1>2. TreeInv => TreeIsCurrent
  BY DEF TreeInv, OpenRows, RowInv, TreeIsCurrent
<1>. QED
  BY <1>1, <1>2, TreeStep, PTL DEF SidebarSpec
=============================================================================
