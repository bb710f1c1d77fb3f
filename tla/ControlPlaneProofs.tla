-------------------------- MODULE ControlPlaneProofs --------------------------
(***************************************************************************)
(* Theorems about ControlPlane, for any strategies and exchanges and any   *)
(* number of requests and saves.                                           *)
(***************************************************************************)
EXTENDS ControlPlane, TLAPS

-----------------------------------------------------------------------------
(* Taking one save out of those in flight. *)

LEMMA RemoveAtType ==
    ASSUME NEW S, NEW s \in Seq(S), NEW i \in DOMAIN s
    PROVE  RemoveAt(s, i) \in Seq(S)
<1>1. SubSeq(s, 1, i - 1) \in Seq(S) /\ SubSeq(s, i + 1, Len(s)) \in Seq(S)
  OBVIOUS
<1>2. QED
  BY <1>1 DEF RemoveAt

LEMMA ConcatLast ==
    ASSUME NEW S, NEW front \in Seq(S), NEW back \in Seq(S), Len(back) > 0
    PROVE  /\ front \o back # <<>>
           /\ (front \o back)[Len(front \o back)] = back[Len(back)]
<1>1. Len(front \o back) = Len(front) + Len(back)
  OBVIOUS
<1>2. Len(front) \in Nat /\ Len(back) \in Nat
  OBVIOUS
<1>3. /\ Len(front) + Len(back) \in 1 .. Len(front) + Len(back)
      /\ ~(Len(front) + Len(back) <= Len(front))
      /\ (Len(front) + Len(back)) - Len(front) = Len(back)
  BY <1>2
<1>4. \A k \in 1 .. Len(front) + Len(back) :
          (front \o back)[k] = IF k <= Len(front) THEN front[k] ELSE back[k - Len(front)]
  OBVIOUS
<1>5. (front \o back)[Len(front) + Len(back)] = back[Len(back)]
  BY <1>3, <1>4
<1>6. QED
  BY <1>1, <1>2, <1>5

\* Unless it was the newest itself, the newest save stays the last.
LEMMA RemoveAtKeepsLast ==
    ASSUME NEW S, NEW s \in Seq(S), NEW i \in DOMAIN s, i # Len(s)
    PROVE  /\ RemoveAt(s, i) # <<>>
           /\ RemoveAt(s, i)[Len(RemoveAt(s, i))] = s[Len(s)]
<1> DEFINE front == SubSeq(s, 1, i - 1)
           back == SubSeq(s, i + 1, Len(s))
<1>1. front \in Seq(S) /\ Len(front) = i - 1
  OBVIOUS
<1>2. back \in Seq(S) /\ Len(back) = Len(s) - i
  OBVIOUS
<1>3. back[Len(back)] = s[Len(s)]
  <2>1. \A k \in 1 .. Len(s) - i : back[k] = s[i + k]
    BY <1>2
  <2>2. Len(s) - i \in 1 .. Len(s) - i /\ i + (Len(s) - i) = Len(s)
    OBVIOUS
  <2>3. QED
    BY <1>2, <2>1, <2>2
<1> HIDE DEF front, back
<1>4. RemoveAt(s, i) = front \o back
  BY DEF RemoveAt, front, back
<1>5. Len(back) > 0
  BY <1>2
<1>6. QED
  BY <1>1, <1>2, <1>3, <1>4, <1>5, ConcatLast

LEMMA AppendLast ==
    ASSUME NEW S, NEW s \in Seq(S), NEW x \in S
    PROVE  /\ Append(s, x) \in Seq(S) /\ Append(s, x) # <<>>
           /\ Append(s, x)[Len(Append(s, x))] = x
  OBVIOUS

-----------------------------------------------------------------------------
(* Types. *)

\* What EnabledHasItsExchanges says of the row and of a save.
Legal == {p \in Payloads : Bound(p.enabled, p.selected)}

\* The types, and the legal selection everywhere it is kept: what a save writes
\* was legal when it was taken, so the row it becomes is.
PlaneInv ==
    /\ ControlTypeOK
    /\ Bound(enabled, selected)
    /\ row \in Legal \union {NoRow}
    /\ writing \in Seq(Legal)

USE DEF settingsVars, storeVars

LEMMA InitPlane == ControlInit => PlaneInv
<1>1. SUFFICES ASSUME ControlInit PROVE PlaneInv
  OBVIOUS
<1>2. EnvTweaks \in Tweaks /\ EnvTweaks.max_consecutive_failures \in Limits \union {EnvTweaks.max_consecutive_failures}
      /\ EnvTweaks.kill_switch \in BOOLEAN
  BY ControlAssumption DEF Tweaks
<1>3. ControlTypeOK
  BY <1>1, <1>2, ControlAssumption DEF ControlInit, ControlTypeOK
<1>4. Bound(enabled, selected)
  BY <1>1, ControlAssumption DEF ControlInit, Bound
<1>5. row \in Legal \union {NoRow} /\ writing \in Seq(Legal)
  BY <1>1 DEF ControlInit
<1>6. QED
  BY <1>3, <1>4, <1>5 DEF PlaneInv

\* What restoring a saved payload does to the settings: nothing, because _validate
\* can only refuse the environment's own number.
LEMMA RestoredIsSaved ==
    ASSUME row \in Legal
    PROVE  Restored = row.tweaks /\ Restored \in Tweaks
<1>1. row.tweaks \in Tweaks
  BY DEF Legal, Payloads
<1>2. \/ row.tweaks.max_consecutive_failures \in Limits
      \/ row.tweaks.max_consecutive_failures = EnvTweaks.max_consecutive_failures
  BY <1>1 DEF Tweaks
<1>3. Restored = row.tweaks
  BY <1>1, <1>2 DEF Restored, Tweaks
<1>4. QED
  BY <1>1, <1>3

\* A legal selection, saved, is a legal payload.
LEMMA PersistLegal ==
    ASSUME writing \in Seq(Legal), NEW t \in Tweaks, NEW e \in [Strategies -> BOOLEAN],
           NEW sel \in [Strategies -> SUBSET Adapters], Bound(e, sel), Persist(t, e, sel)
    PROVE  writing' \in Seq(Legal)
<1>1. Payload(t, e, sel) \in Legal
  BY DEF Payload, Legal, Payloads
<1>2. CASE wired
  BY <1>1, <1>2, AppendLast DEF Persist
<1>3. CASE ~wired
  BY <1>3 DEF Persist
<1>4. QED
  BY <1>2, <1>3

-----------------------------------------------------------------------------
(* Each step keeps the invariant. *)

LEMMA BuildKeeps == PlaneInv /\ Build => PlaneInv'
<1>1. SUFFICES ASSUME PlaneInv, Build PROVE PlaneInv'
  OBVIOUS
<1>2. /\ EnvTweaks \in Tweaks /\ EnvTweaks.kill_switch \in BOOLEAN
      /\ EnvTweaks.max_consecutive_failures
            \in Limits \union {EnvTweaks.max_consecutive_failures}
  BY ControlAssumption DEF Tweaks
<1>3. ControlTypeOK'
  BY <1>1, <1>2, ControlAssumption DEF PlaneInv, ControlTypeOK, Build
<1>4. Bound(enabled, selected)'
  BY <1>1, ControlAssumption DEF Build, Bound
<1>5. (row \in Legal \union {NoRow})' /\ (writing \in Seq(Legal))'
  BY <1>1 DEF PlaneInv, Build
<1>6. QED
  BY <1>3, <1>4, <1>5 DEF PlaneInv

LEMMA LoadKeeps == PlaneInv /\ Load => PlaneInv'
<1>1. SUFFICES ASSUME PlaneInv, Load PROVE PlaneInv'
  OBVIOUS
<1>2. /\ (tweaks \in Tweaks)' /\ (enabled \in [Strategies -> BOOLEAN])'
      /\ (selected \in [Strategies -> SUBSET Adapters])' /\ Bound(enabled, selected)'
  <2>1. CASE row = NoRow
    BY <1>1, <2>1 DEF PlaneInv, ControlTypeOK, Load
  <2>2. CASE row # NoRow
    <3>1. row \in Legal
      BY <1>1, <2>2 DEF PlaneInv
    <3>2. Restored \in Tweaks
      BY <3>1, RestoredIsSaved
    <3>3. tweaks' = Restored /\ enabled' = row.enabled /\ selected' = row.selected
      BY <1>1, <2>2 DEF Load
    <3>4. QED
      BY <3>1, <3>2, <3>3 DEF Legal, Payloads
  <2>3. QED
    BY <2>1, <2>2
<1>3. /\ phase' = "up" /\ wired' = TRUE
      /\ UNCHANGED <<keys, envKeys, kill, limit, row, writing, order, requests>>
  BY <1>1 DEF Load
<1>4. ControlTypeOK'
  BY <1>1, <1>2, <1>3 DEF PlaneInv, ControlTypeOK
<1>5. QED
  BY <1>1, <1>2, <1>3, <1>4 DEF PlaneInv

LEMMA BareBootKeeps == PlaneInv /\ BootWithoutRow => PlaneInv'
<1>1. SUFFICES ASSUME PlaneInv, BootWithoutRow PROVE PlaneInv'
  OBVIOUS
<1>2. ControlTypeOK'
  BY <1>1 DEF PlaneInv, ControlTypeOK, BootWithoutRow
<1>3. QED
  BY <1>1, <1>2 DEF PlaneInv, BootWithoutRow

LEMMA CrashKeeps == PlaneInv /\ Crash => PlaneInv'
<1>1. SUFFICES ASSUME PlaneInv, Crash PROVE PlaneInv'
  OBVIOUS
<1>2. ControlTypeOK'
  BY <1>1 DEF PlaneInv, ControlTypeOK, Crash
<1>3. QED
  BY <1>1, <1>2 DEF PlaneInv, Crash

\* A save that ends leaves the settings alone, and the row it writes was legal.
LEMMA SavesKeep ==
    ASSUME PlaneInv, NEW i \in DOMAIN writing, Commit(i) \/ SaveFails(i)
    PROVE  PlaneInv'
<1>1. /\ writing' = RemoveAt(writing, i)
      /\ row' \in {row, writing[i]}
      /\ UNCHANGED <<phase, settingsVars, envKeys, kill, limit, wired, order, requests>>
  BY DEF Commit, SaveFails
<1>2. writing \in Seq(Legal) /\ row \in Legal \union {NoRow}
  BY DEF PlaneInv
<1>3. writing[i] \in Legal
  BY <1>2
<1>4. ControlTypeOK'
  BY <1>1 DEF PlaneInv, ControlTypeOK
<1>5. Bound(enabled, selected)'
  BY <1>1 DEF PlaneInv
<1>6. writing' \in Seq(Legal)
  BY <1>1, <1>2, RemoveAtType
<1>7. row' \in Legal \union {NoRow}
  BY <1>1, <1>2, <1>3
<1>8. QED
  BY <1>4, <1>5, <1>6, <1>7 DEF PlaneInv

\* An edit of the settings, by a route that saves or by one that does not.
LEMMA EditKeeps ==
    ASSUME PlaneInv, Request, tweaks' \in Tweaks, kill' \in BOOLEAN,
           order' \in {"none", "on", "off"}, writing' \in Seq(Legal),
           UNCHANGED <<enabled, selected, keys, envKeys>>
    PROVE  PlaneInv'
<1>1. requests' \in Nat
  BY DEF PlaneInv, ControlTypeOK, Request
<1>2. UNCHANGED <<phase, limit, wired, row>>
  BY DEF Request
<1>3. ControlTypeOK'
  BY <1>1, <1>2 DEF PlaneInv, ControlTypeOK
<1>4. QED
  BY <1>2, <1>3 DEF PlaneInv

LEMMA UpdatedType ==
    ASSUME NEW t \in Updated
    PROVE  t \in Tweaks /\ t.kill_switch \in BOOLEAN
  BY DEF Updated, Tweaks

LEMMA OnOffType == ASSUME NEW on PROVE OnOff(on) \in {"none", "on", "off"}
  BY DEF OnOff

LEMMA RejectedKeeps ==
    ASSUME PlaneInv, NEW t \in Updated, PostConfigRejected(t)
    PROVE  PlaneInv'
<1>1. kill \in BOOLEAN /\ order \in {"none", "on", "off"} /\ writing \in Seq(Legal)
  BY DEF PlaneInv, ControlTypeOK
<1>2. Request /\ tweaks' \in Tweaks
  BY UpdatedType DEF PostConfigRejected
<1>3. UNCHANGED <<enabled, selected, keys, envKeys, kill, writing, order>>
  BY DEF PostConfigRejected
<1>4. QED
  BY <1>1, <1>2, <1>3, EditKeeps

LEMMA PostConfigKeeps ==
    ASSUME PlaneInv, NEW t \in Updated, NEW namesKill \in BOOLEAN, PostConfig(t, namesKill)
    PROVE  PlaneInv'
<1>1. /\ kill \in BOOLEAN /\ order \in {"none", "on", "off"} /\ writing \in Seq(Legal)
      /\ enabled \in [Strategies -> BOOLEAN] /\ selected \in [Strategies -> SUBSET Adapters]
      /\ Bound(enabled, selected)
  BY DEF PlaneInv, ControlTypeOK
<1>2. Request /\ tweaks' \in Tweaks /\ UNCHANGED <<enabled, selected, keys, envKeys>>
  BY UpdatedType DEF PostConfig
<1>3. writing' \in Seq(Legal)
  BY <1>1, UpdatedType, PersistLegal DEF PostConfig
<1>4. kill' \in BOOLEAN /\ order' \in {"none", "on", "off"}
  <2>1. CASE namesKill
    BY <2>1, UpdatedType, OnOffType DEF PostConfig
  <2>2. CASE ~namesKill
    BY <1>1, <2>2 DEF PostConfig
  <2>3. QED
    BY <2>1, <2>2
<1>5. QED
  BY <1>2, <1>3, <1>4, EditKeeps

LEMMA TweakKeeps ==
    ASSUME PlaneInv, NEW t \in Tweaks, Tweak(t), kill' \in BOOLEAN,
           order' \in {"none", "on", "off"}
    PROVE  PlaneInv'
<1>1. writing \in Seq(Legal)
  BY DEF PlaneInv
<1>2. Request /\ tweaks' = t /\ UNCHANGED <<enabled, selected, keys, envKeys, writing>>
  BY DEF Tweak
<1>3. QED
  BY <1>1, <1>2, EditKeeps

\* What each control route writes is of the settings' type.
LEMMA ControlKeeps ==
    ASSUME PlaneInv,
           \/ Pause \/ Resume \/ SwitchMode \/ ReloadConfig
           \/ \E on \in BOOLEAN : SetKillSwitch(on)
    PROVE  PlaneInv'
<1>1. /\ tweaks \in Tweaks /\ kill \in BOOLEAN /\ order \in {"none", "on", "off"}
      /\ tweaks.mode \in RunModes
  BY DEF PlaneInv, ControlTypeOK, Tweaks
<1>2. CASE Pause
  <2>1. [tweaks EXCEPT !.paused = TRUE] \in Tweaks
    BY <1>1 DEF Tweaks
  <2>2. QED
    BY <1>1, <1>2, <2>1, TweakKeeps DEF Pause
<1>3. CASE Resume
  <2>1. PICK mode \in RunModes \union {tweaks.mode} :
            Tweak([tweaks EXCEPT !.paused = FALSE, !.mode = mode])
    BY <1>3 DEF Resume
  <2>2. [tweaks EXCEPT !.paused = FALSE, !.mode = mode] \in Tweaks
    BY <1>1 DEF Tweaks
  <2>3. UNCHANGED <<kill, order>>
    BY <1>3 DEF Resume
  <2>4. QED
    BY <1>1, <2>1, <2>2, <2>3, TweakKeeps
<1>4. CASE SwitchMode
  <2>1. PICK mode \in RunModes : Tweak([tweaks EXCEPT !.mode = mode])
    BY <1>4 DEF SwitchMode
  <2>2. [tweaks EXCEPT !.mode = mode] \in Tweaks
    BY <1>1 DEF Tweaks
  <2>3. UNCHANGED <<kill, order>>
    BY <1>4 DEF SwitchMode
  <2>4. QED
    BY <1>1, <2>1, <2>2, <2>3, TweakKeeps
<1>5. CASE ReloadConfig
  BY <1>1, <1>5, ControlAssumption, TweakKeeps DEF ReloadConfig
<1>6. ASSUME NEW on \in BOOLEAN, SetKillSwitch(on)
      PROVE  PlaneInv'
  <2>1. [tweaks EXCEPT !.kill_switch = on] \in Tweaks
    BY <1>1 DEF Tweaks
  <2>2. order' \in {"none", "on", "off"}
    BY <1>6, OnOffType DEF SetKillSwitch
  <2>3. Tweak([tweaks EXCEPT !.kill_switch = on]) /\ kill' \in BOOLEAN
    BY <1>6 DEF SetKillSwitch
  <2>4. QED
    BY <2>1, <2>2, <2>3, TweakKeeps
<1>7. QED
  BY <1>2, <1>3, <1>4, <1>5, <1>6

\* Whatever a strategy route sets, a strategy it leaves enabled has a legal list.
LEMMA SetStrategyKeeps ==
    ASSUME PlaneInv, NEW s \in Strategies, NEW on \in BOOLEAN, NEW sel \in SUBSET Adapters,
           on => WellBound(s, sel), SetStrategy(s, on, sel)
    PROVE  PlaneInv'
<1>1. /\ enabled \in [Strategies -> BOOLEAN] /\ selected \in [Strategies -> SUBSET Adapters]
      /\ Bound(enabled, selected) /\ writing \in Seq(Legal) /\ tweaks \in Tweaks
      /\ requests \in Nat
  BY DEF PlaneInv, ControlTypeOK
<1>2. /\ enabled' = [enabled EXCEPT ![s] = on] /\ selected' = [selected EXCEPT ![s] = sel]
      /\ Persist(tweaks, enabled', selected') /\ Request
      /\ UNCHANGED <<tweaks, keys, envKeys, kill, order>>
  BY DEF SetStrategy
<1>3. enabled' \in [Strategies -> BOOLEAN] /\ selected' \in [Strategies -> SUBSET Adapters]
  BY <1>1, <1>2
<1>4. Bound(enabled', selected')
  <2>1. SUFFICES ASSUME NEW q \in Strategies, enabled'[q]
                 PROVE  WellBound(q, selected'[q])
    BY DEF Bound
  <2>2. CASE q = s
    BY <1>1, <1>2, <2>1, <2>2
  <2>3. CASE q # s
    BY <1>1, <1>2, <2>1, <2>3 DEF Bound
  <2>4. QED
    BY <2>2, <2>3
<1>5. writing' \in Seq(Legal)
  BY <1>1, <1>2, <1>3, <1>4, PersistLegal
<1>6. UNCHANGED <<phase, limit, wired, row>> /\ requests' \in Nat
  BY <1>1, <1>2 DEF Request
<1>7. ControlTypeOK'
  BY <1>2, <1>3, <1>6 DEF PlaneInv, ControlTypeOK
<1>8. QED
  BY <1>4, <1>5, <1>6, <1>7 DEF PlaneInv

\* enable, disable, configure and select, each of which checks as much as it needs to.
LEMMA StrategyKeeps ==
    ASSUME PlaneInv, NEW s \in Strategies,
           \/ Enable(s) \/ Disable(s)
           \/ \E sel \in SUBSET Adapters :
                SelectExchanges(s, sel) \/ \E on \in BOOLEAN : Configure(s, on, sel)
    PROVE  PlaneInv'
<1>1. enabled[s] \in BOOLEAN /\ selected[s] \in SUBSET Adapters
  BY DEF PlaneInv, ControlTypeOK
<1>2. CASE Enable(s)
  <2>1. WellBound(s, selected[s]) /\ SetStrategy(s, TRUE, selected[s])
    BY <1>2 DEF Enable, Selectable, WellBound
  <2>2. QED
    BY <1>1, <2>1, SetStrategyKeeps
<1>3. CASE Disable(s)
  BY <1>1, <1>3, SetStrategyKeeps DEF Disable
<1>4. ASSUME NEW sel \in SUBSET Adapters, SelectExchanges(s, sel)
      PROVE  PlaneInv'
  <2>1. enabled[s] => WellBound(s, sel)
    BY <1>4 DEF PlaneInv, Bound, SelectExchanges, Selectable, WellBound
  <2>2. SetStrategy(s, enabled[s], sel)
    BY <1>4 DEF SelectExchanges
  <2>3. QED
    BY <1>1, <2>1, <2>2, SetStrategyKeeps
<1>5. ASSUME NEW sel \in SUBSET Adapters, NEW on \in BOOLEAN, Configure(s, on, sel)
      PROVE  PlaneInv'
  <2>1. on => WellBound(s, sel)
    BY <1>5 DEF Configure, Selectable, WellBound
  <2>2. SetStrategy(s, on, sel)
    BY <1>5 DEF Configure
  <2>3. QED
    BY <2>1, <2>2, SetStrategyKeeps
<1>6. QED
  BY <1>2, <1>3, <1>4, <1>5

LEMMA CredentialsKeep ==
    ASSUME PlaneInv, NEW x \in Adapters, UpdateCredentials(x)
    PROVE  PlaneInv'
<1>1. keys \in SUBSET Adapters /\ envKeys \in SUBSET Adapters /\ requests \in Nat
  BY DEF PlaneInv, ControlTypeOK
<1>2. /\ keys' \in SUBSET Adapters /\ envKeys' \in SUBSET Adapters
  BY <1>1 DEF UpdateCredentials
<1>3. /\ UNCHANGED <<tweaks, enabled, selected, kill, writing, order, phase, limit, wired, row>>
      /\ requests' \in Nat
  BY <1>1 DEF UpdateCredentials, Request
<1>4. ControlTypeOK'
  BY <1>2, <1>3 DEF PlaneInv, ControlTypeOK
<1>5. QED
  BY <1>3, <1>4 DEF PlaneInv

LEMMA StepKeepsPlane == PlaneInv /\ [ControlNext]_planeVars => PlaneInv'
<1>1. SUFFICES ASSUME PlaneInv, [ControlNext]_planeVars PROVE PlaneInv'
  OBVIOUS
<1>2. CASE UNCHANGED planeVars
  BY <1>1, <1>2 DEF planeVars, PlaneInv, ControlTypeOK
<1>3. CASE ControlNext
  BY <1>1, <1>3, BuildKeeps, LoadKeeps, BareBootKeeps, CrashKeeps, SavesKeep, RejectedKeeps,
     PostConfigKeeps, ControlKeeps, StrategyKeeps, CredentialsKeep
     DEF ControlNext
<1>4. QED
  BY <1>1, <1>2, <1>3

LEMMA PlaneInvHolds == ControlSpec => []PlaneInv
  BY InitPlane, StepKeepsPlane, PTL DEF ControlSpec

\* The settings, the switches and the snapshot keep their types.
THEOREM ControlTypesHold == ControlSpec => []ControlTypeOK
<1>1. PlaneInv => ControlTypeOK
  BY DEF PlaneInv
<1>2. QED
  BY <1>1, PlaneInvHolds, PTL

\* Whatever the operators do, in whatever order the saves commit and wherever the
\* process stops, an enabled strategy has a legal list of exchanges: in the settings,
\* in the row, and in every save under way.
THEOREM EnabledAlwaysBound == ControlSpec => []EnabledHasItsExchanges
<1>1. PlaneInv => EnabledHasItsExchanges
  <2>1. SUFFICES ASSUME PlaneInv PROVE EnabledHasItsExchanges
    OBVIOUS
  <2>2. row # NoRow => Bound(row.enabled, row.selected)
    BY <2>1 DEF PlaneInv, Legal
  <2>3. \A i \in DOMAIN writing : writing[i] \in Legal
    BY <2>1 DEF PlaneInv
  <2>4. QED
    BY <2>1, <2>2, <2>3 DEF PlaneInv, Legal, EnabledHasItsExchanges
<1>2. QED
  BY <1>1, PlaneInvHolds, PTL

-----------------------------------------------------------------------------
(* The kill switch. *)

\* The switch is as ordered in every phase: a build, which forgets it, forgets the
\* order too.
Ordered == order # "none" => (kill <=> order = "on")

LEMMA OrderGiven ==
    ASSUME NEW on \in BOOLEAN, kill' = on, order' = OnOff(on)
    PROVE  Ordered'
<1>1. order' = "on" <=> on
  BY DEF OnOff
<1>2. kill' <=> on
  OBVIOUS
<1>3. QED
  BY <1>1, <1>2 DEF Ordered

LEMMA OrderStands ==
    ASSUME Ordered, UNCHANGED <<kill, order>>
    PROVE  Ordered'
<1>1. (kill' <=> kill) /\ (order' # "none" <=> order # "none") /\ (order' = "on" <=> order = "on")
  OBVIOUS
<1>2. order # "none" => (kill <=> order = "on")
  BY DEF Ordered
<1>3. order' # "none" => (kill' <=> order' = "on")
  BY <1>1, <1>2
<1>4. QED
  BY <1>3 DEF Ordered

LEMMA StepKeepsOrder == Ordered /\ [ControlNext]_planeVars => Ordered'
<1>1. SUFFICES ASSUME Ordered, [ControlNext]_planeVars PROVE Ordered'
  OBVIOUS
<1>2. CASE UNCHANGED planeVars
  <2>1. UNCHANGED <<kill, order>>
    BY <1>2 DEF planeVars
  <2>2. QED
    BY <1>1, <2>1, OrderStands
<1>3. CASE Build
  BY <1>3 DEF Build, Ordered
<1>4. CASE Load \/ BootWithoutRow \/ Crash \/ Pause \/ Resume \/ SwitchMode \/ ReloadConfig
  <2>1. UNCHANGED <<kill, order>>
    BY <1>4 DEF Load, BootWithoutRow, Crash, Pause, Resume, SwitchMode, ReloadConfig
  <2>2. QED
    BY <1>1, <2>1, OrderStands
<1>5. ASSUME NEW i \in DOMAIN writing, Commit(i) \/ SaveFails(i)
      PROVE  Ordered'
  <2>1. UNCHANGED <<kill, order>>
    BY <1>5 DEF Commit, SaveFails
  <2>2. QED
    BY <1>1, <2>1, OrderStands
<1>6. ASSUME NEW t \in Updated, PostConfigRejected(t)
      PROVE  Ordered'
  <2>1. UNCHANGED <<kill, order>>
    BY <1>6 DEF PostConfigRejected
  <2>2. QED
    BY <1>1, <2>1, OrderStands
<1>7. ASSUME NEW t \in Updated, NEW namesKill \in BOOLEAN, PostConfig(t, namesKill)
      PROVE  Ordered'
  <2>1. CASE namesKill
    BY <1>7, <2>1, UpdatedType, OrderGiven DEF PostConfig
  <2>2. CASE ~namesKill
    <3>1. UNCHANGED <<kill, order>>
      BY <1>7, <2>2 DEF PostConfig
    <3>2. QED
      BY <1>1, <3>1, OrderStands
  <2>3. QED
    BY <2>1, <2>2
<1>8. ASSUME NEW on \in BOOLEAN, SetKillSwitch(on)
      PROVE  Ordered'
  BY <1>8, OrderGiven DEF SetKillSwitch
<1>9. ASSUME NEW s \in Strategies,
             \/ Enable(s) \/ Disable(s)
             \/ \E sel \in SUBSET Adapters :
                  SelectExchanges(s, sel) \/ \E on \in BOOLEAN : Configure(s, on, sel)
      PROVE  Ordered'
  <2>1. UNCHANGED <<kill, order>>
    BY <1>9 DEF Enable, Disable, SelectExchanges, Configure, SetStrategy
  <2>2. QED
    BY <1>1, <2>1, OrderStands
<1>10. ASSUME NEW x \in Adapters, UpdateCredentials(x)
       PROVE  Ordered'
  <2>1. UNCHANGED <<kill, order>>
    BY <1>10 DEF UpdateCredentials
  <2>2. QED
    BY <1>1, <2>1, OrderStands
<1>11. QED
  BY <1>1, <1>2, <1>3, <1>4, <1>5, <1>6, <1>7, <1>8, <1>9, <1>10 DEF ControlNext

\* Only an accepted order, or a restart, turns the kill switch: no other route, no
\* refused batch, no reload and no save ever does.
THEOREM KillSwitchObeys == ControlSpec => []KillSwitchAsOrdered
<1>1. ControlInit => Ordered
  BY DEF ControlInit, Ordered
<1>2. Ordered => KillSwitchAsOrdered
  BY DEF Ordered, KillSwitchAsOrdered
<1>3. QED
  BY <1>1, <1>2, StepKeepsOrder, PTL DEF ControlSpec

-----------------------------------------------------------------------------
(* What a restart brings back. *)

FromEnv == Payload(EnvTweaks, EnvEnabled, EnvSelected)

\* What a restart will load once the saves in flight have committed in order.
Latest ==
    IF writing # <<>> THEN writing[Len(writing)] ELSE IF row = NoRow THEN FromEnv ELSE row

\* A process that is not serving saves nothing and, once built, holds what the
\* environment says; one that serves, with nothing excused, holds what its latest
\* save says.
Saved ==
    /\ keys = envKeys
    /\ phase # "up" => writing = <<>>
    /\ phase = "built" => Payload(tweaks, enabled, selected) = FromEnv
    /\ phase = "up" /\ excused = {} => Latest = Payload(tweaks, enabled, selected)

\* A request that saves, or leaves an excuse.
LEMMA PersistSaved ==
    ASSUME PlaneInv, keys' = envKeys', phase = "up", phase' = "up",
           tweaks' \in Tweaks, enabled' \in [Strategies -> BOOLEAN],
           selected' \in [Strategies -> SUBSET Adapters], Bound(enabled', selected'),
           Persist(tweaks', enabled', selected')
    PROVE  Saved'
<1>1. Payload(tweaks', enabled', selected') \in Legal
  BY DEF Payload, Legal, Payloads
<1>2. writing \in Seq(Legal)
  BY DEF PlaneInv
<1>3. CASE wired
  <2>1. writing' = Append(writing, Payload(tweaks', enabled', selected'))
    BY <1>3 DEF Persist
  <2>2. writing' # <<>> /\ writing'[Len(writing')] = Payload(tweaks', enabled', selected')
    BY <1>1, <1>2, <2>1, AppendLast
  <2>3. Latest' = Payload(tweaks', enabled', selected')
    BY <2>2 DEF Latest
  <2>4. QED
    BY <2>3 DEF Saved, Payload
<1>4. CASE ~wired
  BY <1>4 DEF Persist, Saved
<1>5. QED
  BY <1>3, <1>4

\* A request that leaves the snapshot behind, and says so.
LEMMA ExcusedSaved ==
    ASSUME keys' = envKeys', phase' = "up", excused' # {}
    PROVE  Saved'
  BY DEF Saved

\* A step that touches neither the settings nor the snapshot.
LEMMA UntouchedSaved ==
    ASSUME Saved, keys' = envKeys',
           UNCHANGED <<phase, tweaks, enabled, selected, row, writing, excused>>
    PROVE  Saved'
<1>1. Latest' = Latest
  BY DEF Latest
<1>2. Payload(tweaks, enabled, selected)' = Payload(tweaks, enabled, selected)
  BY DEF Payload
<1>3. QED
  BY <1>1, <1>2 DEF Saved

LEMMA BootSaved ==
    ASSUME PlaneInv, Saved, Build \/ Load \/ BootWithoutRow \/ Crash
    PROVE  Saved'
<1>1. CASE Build
  <2>1. phase' = "built" /\ keys' = envKeys'
    BY <1>1 DEF Build
  <2>2. writing' = <<>>
    BY <1>1 DEF Build, Saved
  <2>3. Payload(tweaks, enabled, selected)' = FromEnv
    BY <1>1 DEF Build, Payload, FromEnv
  <2>4. QED
    BY <2>1, <2>2, <2>3 DEF Saved
<1>2. CASE Load
  <2>1. /\ phase = "built" /\ phase' = "up" /\ keys' = envKeys' /\ writing' = <<>>
        /\ row' = row
    BY <1>2 DEF Load, Saved
  <2>2. CASE row = NoRow
    <3>1. Payload(tweaks, enabled, selected) = FromEnv
      BY <2>1 DEF Saved
    <3>2. Payload(tweaks, enabled, selected)' = FromEnv
      BY <1>2, <2>2, <3>1 DEF Load, Payload, FromEnv
    <3>3. Latest' = FromEnv
      BY <2>1, <2>2 DEF Latest, FromEnv, Payload
    <3>4. QED
      BY <2>1, <3>2, <3>3 DEF Saved
  <2>3. CASE row # NoRow
    <3>1. row \in Legal
      BY <2>3 DEF PlaneInv
    <3>2. tweaks' = row.tweaks /\ enabled' = row.enabled /\ selected' = row.selected
      BY <1>2, <2>3, <3>1, RestoredIsSaved DEF Load
    <3>3. row = Payload(row.tweaks, row.enabled, row.selected)
      BY <3>1 DEF Legal, Payloads, Payload
    <3>4. Latest' = Payload(tweaks', enabled', selected')
      BY <2>1, <2>3, <3>2, <3>3 DEF Latest
    <3>5. QED
      BY <2>1, <3>4 DEF Saved, Payload
  <2>4. QED
    BY <2>2, <2>3
<1>3. CASE BootWithoutRow
  BY <1>3 DEF BootWithoutRow, Saved
<1>4. CASE Crash
  BY <1>4 DEF Crash, Saved
<1>5. QED
  BY <1>1, <1>2, <1>3, <1>4

\* A save that commits first, or an older one that fails, leaves the latest save
\* the latest; any other end of a save is an excuse.
LEMMA SavesSaved ==
    ASSUME PlaneInv, Saved, NEW i \in DOMAIN writing, Commit(i) \/ SaveFails(i)
    PROVE  Saved'
<1>1. /\ writing' = RemoveAt(writing, i) /\ keys' = envKeys'
      /\ UNCHANGED <<phase, tweaks, enabled, selected>>
      /\ excused' = {} => excused = {}
  BY DEF Commit, SaveFails, Saved
<1>2. writing \in Seq(Legal) /\ writing # <<>>
  BY DEF PlaneInv
<1>3. phase = "up"
  BY <1>2 DEF Saved
<1>4. SUFFICES ASSUME excused' = {} PROVE Latest' = Payload(tweaks, enabled, selected)'
  BY <1>1, <1>3 DEF Saved
<1>5. /\ writing[Len(writing)] = Payload(tweaks, enabled, selected)
      /\ Payload(tweaks, enabled, selected)' = Payload(tweaks, enabled, selected)
  BY <1>1, <1>2, <1>3, <1>4 DEF Saved, Latest, Payload
<1>6. CASE i # Len(writing)
  <2>1. writing' # <<>> /\ writing'[Len(writing')] = writing[Len(writing)]
    BY <1>1, <1>2, <1>6, RemoveAtKeepsLast
  <2>2. QED
    BY <1>5, <2>1 DEF Latest
<1>7. CASE i = Len(writing)
  <2>1. Commit(i) /\ i = 1
    <3>1. ~SaveFails(i)
      BY <1>4, <1>7 DEF SaveFails
    <3>2. Commit(i) => ~(i > 1)
      <4>1. excused \union {"out of order"} # {}
        OBVIOUS
      <4>2. QED
        BY <1>4, <4>1 DEF Commit
    <3>3. i \in 1 .. Len(writing)
      BY <1>2
    <3>4. QED
      BY <1>2, <3>1, <3>2, <3>3
  <2>2. row' = Payload(tweaks, enabled, selected)
    BY <1>5, <1>7, <2>1 DEF Commit
  <2>3. writing' = <<>>
    BY <1>1, <1>2, <1>7, <2>1 DEF RemoveAt
  <2>4. row' # NoRow
    <3>1. writing[i] \in Legal
      BY <1>2
    <3>2. row' = writing[i]
      BY <2>1 DEF Commit
    <3>3. QED
      BY <3>1, <3>2, ControlAssumption DEF Legal
  <2>5. QED
    BY <1>5, <2>2, <2>3, <2>4 DEF Latest
<1>8. QED
  BY <1>6, <1>7

LEMMA RequestsSaved ==
    ASSUME PlaneInv, PlaneInv', Saved,
           \/ \E t \in Updated :
                PostConfigRejected(t) \/ \E namesKill \in BOOLEAN : PostConfig(t, namesKill)
           \/ Pause \/ Resume \/ SwitchMode \/ ReloadConfig
           \/ \E on \in BOOLEAN : SetKillSwitch(on)
           \/ \E s \in Strategies, on \in BOOLEAN, sel \in SUBSET Adapters :
                SetStrategy(s, on, sel)
           \/ \E x \in Adapters : UpdateCredentials(x)
    PROVE  Saved'
<1>1. /\ tweaks' \in Tweaks /\ enabled' \in [Strategies -> BOOLEAN]
      /\ selected' \in [Strategies -> SUBSET Adapters] /\ Bound(enabled', selected')
  BY DEF PlaneInv, ControlTypeOK
<1>2. keys = envKeys
  BY DEF Saved
<1>3. ASSUME NEW t \in Updated, PostConfigRejected(t)
      PROVE  Saved'
  <2>1. /\ phase' = "up" /\ keys' = envKeys'
        /\ UNCHANGED <<phase, enabled, selected, row, writing>>
    BY <1>2, <1>3 DEF PostConfigRejected, Request
  <2>2. CASE t = tweaks
    <3>1. UNCHANGED <<tweaks, excused>>
      BY <1>3, <2>2 DEF PostConfigRejected
    <3>2. QED
      BY <2>1, <3>1, UntouchedSaved
  <2>3. CASE t # tweaks
    <3>1. excused' # {}
      BY <1>3, <2>3 DEF PostConfigRejected
    <3>2. QED
      BY <2>1, <3>1, ExcusedSaved
  <2>4. QED
    BY <2>2, <2>3
<1>4. ASSUME NEW t \in Updated, NEW namesKill \in BOOLEAN, PostConfig(t, namesKill)
      PROVE  Saved'
  <2>1. /\ Persist(tweaks', enabled', selected') /\ keys' = envKeys'
        /\ phase = "up" /\ phase' = "up"
    BY <1>2, <1>4 DEF PostConfig, Request
  <2>2. QED
    BY <1>1, <2>1, PersistSaved
<1>5. ASSUME NEW t, Tweak(t)
      PROVE  Saved'
  <2>1. phase' = "up" /\ keys' = envKeys' /\ excused' # {}
    BY <1>2, <1>5 DEF Tweak, Request
  <2>2. QED
    BY <2>1, ExcusedSaved
<1>6. CASE Pause \/ Resume \/ SwitchMode \/ ReloadConfig \/ \E on \in BOOLEAN : SetKillSwitch(on)
  BY <1>5, <1>6 DEF Pause, Resume, SwitchMode, ReloadConfig, SetKillSwitch
<1>7. ASSUME NEW s \in Strategies, NEW on \in BOOLEAN, NEW sel \in SUBSET Adapters,
             SetStrategy(s, on, sel)
      PROVE  Saved'
  <2>1. /\ Persist(tweaks, enabled', selected') /\ tweaks' = tweaks
        /\ keys' = envKeys' /\ phase = "up" /\ phase' = "up"
    BY <1>2, <1>7 DEF SetStrategy, Request
  <2>2. Persist(tweaks', enabled', selected')
    BY <2>1
  <2>3. QED
    BY <1>1, <2>1, <2>2, PersistSaved
<1>8. ASSUME NEW x \in Adapters, UpdateCredentials(x)
      PROVE  Saved'
  <2>1. UNCHANGED <<phase, tweaks, enabled, selected, row, writing, excused>>
    BY <1>8 DEF UpdateCredentials, Request
  <2>2. keys' = envKeys'
    <3>1. envKeys' = envKeys \union {x} \/ envKeys' = envKeys \ {x}
      BY <1>8 DEF UpdateCredentials
    <3>2. CASE x \in envKeys'
      BY <1>2, <1>8, <3>1, <3>2 DEF UpdateCredentials
    <3>3. CASE x \notin envKeys'
      BY <1>2, <1>8, <3>1, <3>3 DEF UpdateCredentials
    <3>4. QED
      BY <3>2, <3>3
  <2>3. QED
    BY <2>1, <2>2, UntouchedSaved
<1>9. QED
  BY <1>3, <1>4, <1>6, <1>7, <1>8

\* The four strategy routes are one edit of the settings each.
LEMMA StrategyRoutes ==
    ASSUME PlaneInv, NEW s \in Strategies,
           \/ Enable(s) \/ Disable(s)
           \/ \E sel \in SUBSET Adapters :
                SelectExchanges(s, sel) \/ \E on \in BOOLEAN : Configure(s, on, sel)
    PROVE  \E on \in BOOLEAN, sel \in SUBSET Adapters : SetStrategy(s, on, sel)
<1>1. enabled[s] \in BOOLEAN /\ selected[s] \in SUBSET Adapters
  BY DEF PlaneInv, ControlTypeOK
<1>2. QED
  BY <1>1 DEF Enable, Disable, SelectExchanges, Configure

LEMMA StepKeepsSaved == PlaneInv /\ PlaneInv' /\ Saved /\ [ControlNext]_planeVars => Saved'
<1>1. SUFFICES ASSUME PlaneInv, PlaneInv', Saved, [ControlNext]_planeVars PROVE Saved'
  OBVIOUS
<1>2. CASE UNCHANGED planeVars
  <2>1. keys' = envKeys' /\ UNCHANGED <<phase, tweaks, enabled, selected, row, writing, excused>>
    BY <1>1, <1>2 DEF planeVars, Saved
  <2>2. QED
    BY <1>1, <2>1, UntouchedSaved
<1>3. CASE ControlNext
  BY <1>1, <1>3, BootSaved, SavesSaved, RequestsSaved, StrategyRoutes DEF ControlNext
<1>4. QED
  BY <1>1, <1>2, <1>3

\* Operator edits survive a restart unless there is an excuse on record: whatever was
\* posted, reloaded or saved in whatever order, a boot in a state without one brings
\* back the very settings in force.
THEOREM EditsSurviveRestart == ControlSpec => []RestartRestores
<1>1. ControlInit => Saved
  BY DEF ControlInit, Saved
<1>2. PlaneInv /\ Saved => RestartRestores
  <2>1. SUFFICES ASSUME PlaneInv, Saved, phase = "up", writing = <<>>, excused = {}
                 PROVE  /\ keys = envKeys
                        /\ IF row = NoRow
                            THEN tweaks = EnvTweaks /\ enabled = EnvEnabled
                                 /\ selected = EnvSelected
                            ELSE tweaks = Restored /\ enabled = row.enabled
                                 /\ selected = row.selected
    BY DEF RestartRestores
  <2>2. keys = envKeys /\ Latest = Payload(tweaks, enabled, selected)
    BY <2>1 DEF Saved
  <2>3. CASE row = NoRow
    BY <2>1, <2>2, <2>3 DEF Latest, FromEnv, Payload
  <2>4. CASE row # NoRow
    <3>1. row \in Legal /\ row = Payload(tweaks, enabled, selected)
      BY <2>1, <2>2, <2>4 DEF PlaneInv, Latest
    <3>2. tweaks = row.tweaks /\ enabled = row.enabled /\ selected = row.selected
      BY <3>1 DEF Payload
    <3>3. QED
      BY <2>2, <2>4, <3>1, <3>2, RestoredIsSaved
  <2>5. QED
    BY <2>3, <2>4
<1>3. QED
  BY <1>1, <1>2, PlaneInvHolds, StepKeepsSaved, PTL DEF ControlSpec
=============================================================================
