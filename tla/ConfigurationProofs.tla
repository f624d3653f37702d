------------------------- MODULE ConfigurationProofs -------------------------
(***************************************************************************)
(* What is proved of the configuration of a node and of the helper that    *)
(* edits it, for every set of flags, domains, workers and helpers.         *)
(*                                                                         *)
(* 1. NodeConfig. _native_overlay, native_settings_snapshot and the forced *)
(*    settings as functions of flags; from these, that a written mirror    *)
(*    hides nothing of the file, that a save reaches the service, and that *)
(*    without faults what a start would use is what was asked for.         *)
(* 2. DomainScope. The selection that is accepted is the least closed one, *)
(*    and it is applied in an order in which every row finds what it refers*)
(*    to.                                                                  *)
(* 3. SetupHelper. The lock decides who serves. A helper past the lock     *)
(*    holds it until its process is gone, so two never serve, and the PID  *)
(*    file, which is written and removed under the lock, names the one that*)
(*    does.                                                                *)
(***************************************************************************)
EXTENDS NodeConfig, DomainScope, SetupHelper, FiniteSetTheorems, TLAPS

-----------------------------------------------------------------------------
(* 1. The configuration of a node. *)

Setting == [on : SUBSET Flag, secret : Int]
Visibles == [keys : SUBSET Flag, on : SUBSET Flag]

\* The keys that a mirror decides, and the flags that are on with it laid over a file.
Read(v) == IF "leader" \in v.on THEN v.keys \ FollowerOnly ELSE v.keys
Over(v, on) == (on \ Read(v)) \cup (v.on \cap Read(v))

\* Which flags the modes and presets force.
LEMMA SettledMember ==
    ASSUME NEW on, NEW x
    PROVE  x \in Settled(on) <=>
              /\ ~(x = "automatic" /\ "cold" \in on)
              /\ IF "content" \in on /\ "leader" \notin on /\ x \in Domain
                   THEN x \in Content ELSE x \in on
BY ConfigAssumption DEF Settled, Normal, Scalar

\* Modes and presets force known settings only.
LEMMA SettledType == ASSUME NEW on \in SUBSET Flag PROVE Settled(on) \in SUBSET Flag
BY ConfigAssumption DEF Settled, Normal, Flag

\* What has been settled stays as it is (normalize_redundancy_mode and the
\* content preset are idempotent).
LEMMA SettledTwice == ASSUME NEW on PROVE Settled(Settled(on)) = Settled(on)
BY ConfigAssumption DEF Settled, Normal, Scalar

\* What _native_overlay reads.
LEMMA OverlayIs ==
    ASSUME NEW v \in Visibles, NEW f \in Setting, Scalar \subseteq v.keys
    PROVE  /\ Overlay(v, f) = [on |-> Settled(Over(v, f.on)), secret |-> f.secret]
           /\ Overlay(v, f) \in Setting
<1>1. Over(v, f.on) \in SUBSET Flag
  BY DEF Over, Read, Visibles, Setting
<1>2. Overlay(v, f) = [f EXCEPT !.on = Settled(Over(v, f.on))]
  BY DEF Overlay, Over, Read, Scalar
<1>3. [f EXCEPT !.on = Settled(Over(v, f.on))] = [on |-> Settled(Over(v, f.on)), secret |-> f.secret]
  BY DEF Setting
<1> QED
  BY <1>1, <1>2, <1>3, SettledType DEF Setting

\* What native_settings_snapshot writes.
LEMMA SnapshotIs ==
    ASSUME NEW f \in Setting
    PROVE  /\ Snapshot(f) \in Visibles
           /\ Snapshot(f).on = Normal(f.on)
           /\ Snapshot(f).keys = Scalar \cup Domain \cup (Normal(f.on) \cap Protect)
           /\ Scalar \subseteq Snapshot(f).keys
BY DEF Snapshot, Visibles, Setting, Normal, Flag

\* A mirror of a file hides nothing of it.
LEMMA MirrorHidesNothing ==
    ASSUME NEW f \in Setting
    PROVE  Overlay(Snapshot(f), f) = [on |-> Settled(f.on), secret |-> f.secret]
<1> DEFINE v == Snapshot(f)
<1>1. Overlay(v, f) = [on |-> Settled(Over(v, f.on)), secret |-> f.secret]
  BY SnapshotIs, OverlayIs
<1>2. ASSUME NEW x PROVE x \in Settled(Over(v, f.on)) <=> x \in Settled(f.on)
  <2>1. x \in Settled(Over(v, f.on)) <=>
          /\ ~(x = "automatic" /\ "cold" \in Over(v, f.on))
          /\ IF "content" \in Over(v, f.on) /\ "leader" \notin Over(v, f.on) /\ x \in Domain
               THEN x \in Content ELSE x \in Over(v, f.on)
    BY SettledMember
  <2>2. \A y : y \in Over(v, f.on) => y \in f.on
    BY SnapshotIs DEF Over, Normal
  <2>3. \A y : y \in f.on /\ ~(y = "automatic" /\ "cold" \in f.on) => y \in Over(v, f.on)
    BY SnapshotIs, ConfigAssumption DEF Over, Read, Normal, FollowerOnly, Scalar
  <2> QED
    BY <2>1, <2>2, <2>3, SettledMember
<1> QED
  BY <1>1, <1>2

\* No mode and no preset changes the role.
LEMMA LeaderKept ==
    ASSUME NEW on
    PROVE  "leader" \in Settled(on) <=> "leader" \in on
BY SettledMember, ConfigAssumption DEF Scalar

\* Flags of no domain and no mode pass through.
LEMMA OthersPass ==
    ASSUME NEW on, NEW x, x \notin Domain, x # "automatic"
    PROVE  x \in Settled(on) <=> x \in on
BY SettledMember

\* Under the mirror, the file may as well be settled.
LEMMA OverSettled ==
    ASSUME NEW v \in Visibles, NEW on, Scalar \cup Domain \subseteq v.keys,
           "leader" \in v.on <=> "leader" \in on
    PROVE  Settled(Over(v, Settled(on))) = Settled(Over(v, on))
<1>1. ASSUME NEW x PROVE x \in Over(v, Settled(on)) <=> x \in Over(v, on)
  <2>1. CASE x \in Read(v)
    BY <2>1 DEF Over
  <2>2. CASE x \notin Read(v)
    <3>1. x \notin Domain \/ ("leader" \in on /\ x \in Domain)
      BY <2>2 DEF Read
    <3>2. x # "automatic"
      BY <2>2, ConfigAssumption DEF Read, Scalar, FollowerOnly
    <3>3. x \in Settled(on) <=> x \in on
      BY <3>1, <3>2, SettledMember
    <3> QED
      BY <2>2, <3>3 DEF Over
  <2> QED
    BY <2>1, <2>2
<1>2. Over(v, Settled(on)) = Over(v, on)
  BY <1>1
<1> QED
  BY <1>2

\* A mirror laid over a file a second time changes nothing.
LEMMA OverTwice ==
    ASSUME NEW v, NEW on
    PROVE  Over(v, Over(v, on)) = Over(v, on)
BY DEF Over

\* A protection that the mirror does not decide passes through.
LEMMA OverProtected ==
    ASSUME NEW v, NEW on, NEW flag \in Imported, flag \notin Read(v)
    PROVE  Settled(Over(v, on \cup {flag})) = Settled(Over(v, on)) \cup {flag}
<1>0. flag \notin Domain /\ flag \notin Scalar
  BY ConfigAssumption DEF Protect
<1>1. Over(v, on \cup {flag}) = Over(v, on) \cup {flag}
  BY DEF Over
<1>2. ASSUME NEW S PROVE Settled(S \cup {flag}) = Settled(S) \cup {flag}
  BY <1>0, SettledMember, ConfigAssumption DEF Scalar, Settled, Normal
<1> QED
  BY <1>1, <1>2

\* What the native form asks for is what it stores.
LEMMA NativeForm ==
    ASSUME NEW v \in Visibles, NEW on \in SUBSET Flag, NEW flag \in Flag \ Imported,
           want.on = Settled(Over(v, on)), Visible(v.on, flag),
           Scalar \cup Domain \subseteq v.keys, v.keys \cap Imported = v.on \cap Imported,
           "leader" \in v.on => v.on \cap Domain = on \cap Domain,
           "leader" \notin v.on => Old \cap (v.on \cup on) \subseteq v.keys,
           "leader" \in v.on <=> "leader" \in on,
           NEW w, w = [keys |-> v.keys \cup Scalar \cup Domain \cup Old, on |-> Toggled(v.on, flag)]
    PROVE  Settled(Over(w, on)) = Asked(v.on, flag)
<1> DEFINE shown == Domain \cup {"automatic"}
           now == IF flag \in v.on THEN want.on \ {flag} ELSE want.on \cup {flag}
           asked == (now \ shown) \cup (Toggled(v.on, flag) \cap shown)
<1>0. flag # "leader" /\ ("leader" \in w.on <=> "leader" \in v.on)
  BY DEF Visible, Toggled
<1>1. ASSUME NEW x \in Flag PROVE x \in Over(w, on) <=> x \in asked
  <2>1. CASE x \in shown
    <3>1. CASE x \in Read(w)
      BY <2>1, <3>1 DEF Over
    <3>2. CASE x \notin Read(w)
      <4>1. "leader" \in v.on /\ x \in Domain
        BY <1>0, <2>1, <3>2, ConfigAssumption DEF Read, FollowerOnly, Scalar
      <4>2. x # flag
        BY <4>1 DEF Visible, FollowerOnly
      <4> QED
        BY <2>1, <3>2, <4>1, <4>2 DEF Over, Toggled
    <3> QED
      BY <3>1, <3>2
  <2>2. CASE x \notin shown
    <3>1. x \in want.on <=> x \in Over(v, on)
      BY <2>2, OthersPass
    <3>2. CASE x \in Read(v)
      <4>1. x \in Read(w)
        BY <1>0, <3>2 DEF Read
      <4> QED
        BY <2>2, <3>1, <3>2, <4>1 DEF Over, Toggled
    <3>3. CASE x \notin Read(v) /\ x \in Read(w)
      <4>1. x \in Old /\ "leader" \notin v.on /\ x \notin v.keys
        BY <1>0, <2>2, <3>3 DEF Read, FollowerOnly, Protect
      <4>2. x \notin v.on /\ x \notin on
        BY <4>1
      <4> QED
        BY <2>2, <3>1, <3>3, <4>2 DEF Over, Toggled
    <3>4. CASE x \notin Read(v) /\ x \notin Read(w)
      <4>1. x # flag
        BY <1>0, <3>4 DEF Read, Visible, FollowerOnly, Flag, Protect
      <4> QED
        BY <2>2, <3>1, <3>4, <4>1 DEF Over, Toggled
    <3> QED
      BY <3>2, <3>3, <3>4
  <2> QED
    BY <2>1, <2>2
<1>2. Over(w, on) \subseteq Flag /\ asked \subseteq Flag
  BY SettledType DEF Over, Read, Visibles, Toggled, Flag
<1>3. Over(w, on) = asked
  BY <1>1, <1>2
<1> QED
  BY <1>3 DEF Asked

-----------------------------------------------------------------------------
(* Types. *)

Types ==
    /\ file \in Setting /\ want \in Setting /\ running \in Setting
    /\ req \in Setting /\ seen \in Setting
    /\ mirror \in Visibles /\ Scalar \subseteq mirror.keys
    /\ page \in SUBSET Flag /\ news \in SUBSET Imported
    /\ edits \in 0..MaxEdits
    /\ want.secret \in 0..edits /\ file.secret \in 0..want.secret
    /\ req # None => req.secret \in 0..want.secret
    /\ seen # None => seen.secret \in 0..want.secret

TypeInv == Types /\ TypeOK

\* The absent request is no configuration that a file holds.
LEMMA NoneIs == None \in Setting /\ \A f \in Setting : f.secret \in Nat => f # None
BY DEF None, Setting

\* The first configuration and its mirror are well typed.
LEMMA InitTypes == Init => TypeInv
<1> SUFFICES ASSUME Init PROVE TypeInv
  OBVIOUS
<1>1. PICK on \in {{}, {"leader"}, {"cold"}} : file = [on |-> on \cup Domain, secret |-> 0]
  BY DEF Init
<1>2. file \in Setting /\ file.secret = 0 /\ file.on \subseteq Flag
  BY <1>1 DEF Setting, Flag, Scalar
<1>3. /\ mirror \in Visibles /\ Scalar \subseteq mirror.keys
      /\ mirror.on \subseteq mirror.keys \cup Protect /\ mirror.keys \subseteq Flag
  <2>1. mirror = Snapshot(file)
    BY DEF Init
  <2>2. mirror.on = Normal(file.on) /\ Normal(file.on) \subseteq file.on
    BY <1>2, <2>1, SnapshotIs DEF Normal
  <2> QED
    BY <1>2, <2>1, <2>2, SnapshotIs DEF Visibles, Flag
<1>4. /\ page = {} /\ news = {} /\ edits = 0 /\ pc = "idle" /\ req = None /\ seen = None
      /\ want = file /\ running = file
  BY DEF Init
<1> QED
  BY <1>2, <1>3, <1>4, NoneIs, ConfigAssumption DEF TypeInv, Types, TypeOK, Visibles, Setting

\* What a start would use is a configuration with the secrets of the file.
LEMMA OverlayType ==
    ASSUME TypeInv
    PROVE  Effective \in Setting /\ Effective.secret = file.secret
BY OverlayIs DEF TypeInv, Types, Effective, Setting

\* The history only notes; a step of the specification is one of the code.
LEMMA NextIsStep == [Next]_<<vars, mishaps>> => [Step]_vars
BY DEF Next

\* A step is clean when none of the mishaps happens in it.
Clean(what) == UNCHANGED vars \/ \A m \in what : ~Happens(m)

\* What has not happened after a step did not happen before it, nor in it.
LEMMA HistoryIsNoted ==
    ASSUME [Next]_<<vars, mishaps>>, NEW what \in SUBSET {"mirror", "page", "overlap"},
           mishaps' \cap what = {}
    PROVE  mishaps \cap what = {} /\ Clean(what)
BY DEF Next, Clean

\* Every form, request, start and import keeps the types and the counters.
LEMMA TypesStep == TypeInv /\ [Step]_vars => TypeInv'
<1> SUFFICES ASSUME TypeInv, [Step]_vars PROVE TypeInv'
  OBVIOUS
<1> USE NoneIs, ConfigAssumption, SettledType DEF TypeInv, Types, TypeOK, Visibles, Setting, Edit, NewSecret
<1>1. CASE EditNative
  <2>1. PICK flag \in Flag \ Imported :
          /\ mirror' = [keys |-> mirror.keys \cup Scalar \cup Domain \cup Old,
                        on |-> Toggled(mirror.on, flag)]
          /\ want' = [want EXCEPT !.on = Asked(mirror.on, flag)]
    BY <1>1 DEF EditNative
  <2>2. Asked(mirror.on, flag) \in SUBSET Flag /\ Toggled(mirror.on, flag) \in SUBSET Flag
    BY DEF Asked, Toggled, Flag
  <2>3. mirror' \in Visibles /\ Scalar \subseteq mirror'.keys /\ mirror'.on \subseteq mirror'.keys \cup Protect
    BY <2>1, <2>2 DEF Flag, Protect
  <2>4. want' \in Setting /\ want'.secret = want.secret
    BY <2>1, <2>2
  <2> QED
    BY <1>1, <2>3, <2>4 DEF EditNative
<1>2. CASE OpenSetup
  BY <1>2, OverlayType DEF OpenSetup
<1>3. CASE Load
  BY <1>3 DEF Load
<1>4. CASE ImportKey
  BY <1>4 DEF ImportKey
<1>5. CASE Store
  BY <1>5 DEF Store
<1>6. CASE Save
  <2>1. PICK flag \in Flag :
          /\ req' = [on |-> Settled(Toggled(page, flag)), secret |-> file.secret]
          /\ want' = [want EXCEPT !.on = Asked(page, flag)]
    BY <1>6 DEF Save
  <2>2. Asked(page, flag) \in SUBSET Flag /\ Toggled(page, flag) \in SUBSET Flag
    BY DEF Asked, Toggled, Flag
  <2> QED
    BY <1>6, <2>1, <2>2 DEF Save
<1>7. CASE ImportProfile
  <2>1. PICK cold \in SUBSET {"cold"} :
          /\ req' = [on |-> Profiled(page, cold), secret |-> NewSecret]
          /\ want' = [on |-> Profiled(want.on, cold), secret |-> NewSecret]
    BY <1>7 DEF ImportProfile
  <2>2. Profiled(page, cold) \in SUBSET Flag /\ Profiled(want.on, cold) \in SUBSET Flag
    BY DEF Profiled, Flag, Scalar
  <2> QED
    BY <1>7, <2>1, <2>2 DEF ImportProfile
<1>8. CASE Write
  BY <1>8 DEF Write
<1>9. CASE Sync
  <2>1. mirror' = Snapshot(file)
    BY <1>9 DEF Sync
  <2>2. Normal(file.on) \subseteq file.on
    BY DEF Normal
  <2>3. /\ mirror' \in Visibles /\ Scalar \subseteq mirror'.keys
        /\ mirror'.on \subseteq mirror'.keys \cup Protect
    BY <2>1, <2>2, SnapshotIs DEF Flag
  <2> QED
    BY <1>9, <2>3 DEF Sync
<1>10. CASE SyncFails
  BY <1>10 DEF SyncFails
<1>11. CASE Reload
  <2>1. [keys |-> Scalar, on |-> req.on] \in Visibles
    BY DEF Flag
  <2>2. running' \in Setting
    BY <1>11, <2>1, OverlayIs DEF Reload
  <2> QED
    BY <1>11, <2>2 DEF Reload
<1>12. CASE Restart
  BY <1>12, OverlayType DEF Restart
<1>13. CASE Remember
  <2>1. PICK flag \in Imported \ want.on : news' = {flag} /\ want' = [want EXCEPT !.on = @ \cup {flag}]
    BY <1>13 DEF Remember
  <2>2. want' \in Setting /\ want'.secret = want.secret
    BY <2>1 DEF Flag, Protect
  <2> QED
    BY <1>13, <2>1, <2>2 DEF Remember
<1>14. CASE Remembered
  <2>1. file' = [seen EXCEPT !.on = @ \cup news] /\ seen # None
    BY <1>14 DEF Remembered
  <2>2. file' \in Setting /\ file'.secret = seen.secret
    BY <2>1 DEF Flag, Protect
  <2> QED
    BY <1>14, <2>1, <2>2 DEF Remembered
<1>15. CASE UNCHANGED vars
  BY <1>15 DEF vars
<1> QED
  BY <1>1, <1>2, <1>3, <1>4, <1>5, <1>6, <1>7, <1>8, <1>9, <1>10, <1>11, <1>12, <1>13,
     <1>14, <1>15 DEF Step

\* The file, its mirror, the page and every copy a process carries are
\* configurations, with each fault and overlap of the environment.
THEOREM ConfigTypeCorrect == Spec => []TypeOK
<1>1. TypeInv => TypeOK
  BY DEF TypeInv
<1> QED
  BY <1>1, InitTypes, NextIsStep, TypesStep, PTL DEF Spec

-----------------------------------------------------------------------------
(* A mirror that is written hides nothing, and a save reaches the service. *)

\* "Save again to retry the mirror": a mirror that a save writes hides nothing of
\* the file it wrote, since only the child of that save writes it meanwhile.
THEOREM WrittenMirrorRestores == Spec => SyncRestores
<1>1. ASSUME TypeInv, [Step]_vars, pc = "syncing", mirror' # mirror
      PROVE  Effective' = [file EXCEPT !.on = Settled(@)]
  <2>1. Sync
    BY <1>1 DEF Step, vars, EditNative, OpenSetup, Load, ImportKey, Store, Save, ImportProfile, Edit,
                Write, SyncFails, Reload, Restart, Remember, Remembered
  <2>2. file' = file /\ mirror' = Snapshot(file) /\ file \in Setting
    BY <1>1, <2>1 DEF Sync, TypeInv, Types
  <2>3. [file EXCEPT !.on = Settled(@)] = [on |-> Settled(file.on), secret |-> file.secret]
    BY <2>2 DEF Setting
  <2> QED
    BY <2>2, <2>3, MirrorHidesNothing DEF Effective
<1>2. TypeInv /\ [Step]_vars
         => [pc = "syncing" /\ mirror' # mirror => Effective' = [file EXCEPT !.on = Settled(@)]]_vars
  BY <1>1
<1> QED
  BY <1>2, InitTypes, NextIsStep, TypesStep, PTL DEF Spec, SyncRestores

\* From the write of the file on, the request in progress is what the file holds.
SaveInv ==
    /\ seen # None => pc = "idle"
    /\ pc \in {"saving", "syncing", "reloading"} => Settled(req.on) = req.on
    /\ pc \in {"syncing", "reloading"} => file = req

\* Where no import overlaps a save, every step keeps it so.
LEMMA SaveStep ==
    ASSUME TypeInv, SaveInv, [Step]_vars, Clean({"overlap"})
    PROVE  SaveInv'
<1> USE DEF SaveInv, Edit
<1>0. pc' # "idle" => seen' = None
  BY DEF Clean, Happens, vars
<1>1. CASE EditNative \/ OpenSetup \/ ImportKey
  BY <1>0, <1>1 DEF EditNative, OpenSetup, ImportKey
<1>2. CASE Load \/ Store \/ SyncFails \/ Sync \/ Reload \/ Restart
  BY <1>0, <1>2 DEF Load, Store, SyncFails, Sync, Reload, Restart
<1>3. CASE Save
  BY <1>0, <1>3, SettledTwice DEF Save
<1>4. CASE ImportProfile
  BY <1>0, <1>4, SettledTwice DEF ImportProfile, Profiled
<1>5. CASE Write
  BY <1>0, <1>5 DEF Write
<1>6. CASE Remember
  BY <1>0, <1>6 DEF Remember
<1>7. CASE Remembered
  BY <1>0, <1>7 DEF Remembered
<1>8. CASE UNCHANGED vars
  BY <1>8 DEF vars
<1> QED
  BY <1>1, <1>2, <1>3, <1>4, <1>5, <1>6, <1>7, <1>8 DEF Step

\* A service built with the scalar settings of a settled file has that file.
LEMMA ServiceReads ==
    ASSUME NEW f \in Setting, Settled(f.on) = f.on
    PROVE  Overlay([keys |-> Scalar, on |-> f.on], f) = f
<1> DEFINE v == [keys |-> Scalar, on |-> f.on]
<1>1. v \in Visibles /\ Scalar \subseteq v.keys
  BY DEF Visibles, Setting, Flag
<1>2. Over(v, f.on) = f.on
  BY DEF Over
<1>3. Overlay(v, f) = [on |-> f.on, secret |-> f.secret]
  BY <1>1, <1>2, OverlayIs
<1> QED
  BY <1>3 DEF Setting

\* "Configuration is active": the service that a save restarts has what was
\* saved, also when the mirror fails or the page is old, until an import
\* writes the file during a save.
THEOREM SavedIsServed == Spec => ServiceGetsSave
<1> DEFINE SavedInv == "overlap" \notin mishaps => SaveInv
<1>1. Init => SavedInv
  BY DEF Init, SaveInv
<1>2. TypeInv /\ SavedInv /\ [Next]_<<vars, mishaps>> => SavedInv'
  <2> SUFFICES ASSUME TypeInv, SavedInv, [Next]_<<vars, mishaps>>, "overlap" \notin mishaps'
               PROVE  SaveInv'
    OBVIOUS
  <2>1. mishaps \cap {"overlap"} = {} /\ Clean({"overlap"})
    BY HistoryIsNoted
  <2> QED
    BY <2>1, NextIsStep, SaveStep
<1>3. ASSUME TypeInv, SavedInv, [Step]_vars, pc = "reloading", pc' = "idle", "overlap" \notin mishaps
      PROVE  running' = req
  <2>1. Reload
    BY <1>3 DEF Step, vars, EditNative, OpenSetup, Load, ImportKey, Store, Save, ImportProfile, Edit,
                Write, Sync, SyncFails, Restart, Remember, Remembered, SaveInv
  <2>2. running' = Overlay([keys |-> Scalar, on |-> req.on], req)
    BY <1>3, <2>1 DEF Reload, SaveInv
  <2> QED
    BY <1>3, <2>2, ServiceReads DEF SaveInv, TypeInv, Types
<1>4. TypeInv /\ SavedInv /\ [Step]_vars
        => [pc = "reloading" /\ pc' = "idle" /\ "overlap" \notin mishaps => running' = req]_vars
  BY <1>3
<1> QED
  BY <1>1, <1>2, <1>4, InitTypes, NextIsStep, TypesStep, PTL DEF Spec, ServiceGetsSave

-----------------------------------------------------------------------------
(* What a start would use is what was asked for. *)

Lead == "leader" \in want.on

\* A node keeps its role, in every copy.
RoleKept ==
    /\ "leader" \in file.on <=> Lead
    /\ "leader" \in mirror.on <=> Lead
    /\ "leader" \in running.on <=> Lead
    /\ page # {} => ("leader" \in page <=> Lead)
    /\ req # None => ("leader" \in req.on <=> Lead)

\* The mirror decides all that the native form shows; what it does not decide
\* it does not hide.
FormsInv ==
    /\ Settled(want.on) = want.on
    /\ Settled(page) = page
    /\ Scalar \cup Domain \subseteq mirror.keys
    /\ mirror.keys \cap Imported = mirror.on \cap Imported
    /\ Lead => mirror.on \cap Domain = file.on \cap Domain
    /\ Lead /\ req # None => mirror.on \cap Domain = req.on \cap Domain
    /\ pc \in {"idle", "opening"} /\ ~Lead =>
          Old \cap (mirror.on \cup file.on \cup req.on) \subseteq mirror.keys

\* At each step of a request, the copy that counts is what was asked for.
AskedInv ==
    /\ seen # None => pc = "idle" /\ seen = file
    /\ pc = "idle" => /\ Settled(Over(mirror, file.on \cup news)) = want.on
                      /\ file.secret = want.secret
    /\ pc = "opening" => /\ Settled(Over(mirror, req.on)) = want.on
                         /\ req.secret = want.secret
    /\ pc \in {"saving", "syncing", "reloading"} => req = want
    /\ pc \in {"syncing", "reloading"} => file = req
    /\ pc = "reloading" => mirror = Snapshot(file)

CarefulInv == TypeInv /\ RoleKept /\ FormsInv /\ AskedInv

\* What a start would use, as a set of flags.
LEMMA EffectiveIs ==
    ASSUME TypeInv
    PROVE  Effective = [on |-> Settled(Over(mirror, file.on)), secret |-> file.secret]
BY OverlayIs DEF TypeInv, Types, Effective

\* The mirror decides the role.
LEMMA LeaderOver ==
    ASSUME NEW v, NEW on, Scalar \subseteq v.keys
    PROVE  "leader" \in Over(v, on) <=> "leader" \in v.on
BY ConfigAssumption DEF Over, Read, FollowerOnly, Scalar

\* A node that was just set up uses what was asked for.
LEMMA InitCareful == Init => CarefulInv
<1> SUFFICES ASSUME Init PROVE CarefulInv
  OBVIOUS
<1>0. TypeInv
  BY InitTypes
<1>1. PICK on \in {{}, {"leader"}, {"cold"}} : file = [on |-> on \cup Domain, secret |-> 0]
  BY DEF Init
<1>2. "automatic" \notin file.on /\ "content" \notin file.on
  BY <1>1, ConfigAssumption DEF Scalar
<1>3. Settled(file.on) = file.on /\ Normal(file.on) = file.on
  BY <1>2 DEF Settled, Normal
<1>4. /\ want = file /\ running = file /\ mirror = Snapshot(file) /\ page = {} /\ news = {}
      /\ pc = "idle" /\ req = None /\ seen = None
  BY DEF Init
<1>5. mirror.on = file.on /\ mirror.keys = Scalar \cup Domain \cup (file.on \cap Protect)
  BY <1>0, <1>3, <1>4, SnapshotIs DEF TypeInv, Types
<1>6. Over(mirror, file.on) = file.on
  BY <1>5 DEF Over
<1>7. Settled({}) = {}
  BY DEF Settled, Normal
<1>8. mirror.keys \cap Imported = mirror.on \cap Imported
  BY <1>5, ConfigAssumption DEF Protect
<1>9. Old \cap file.on \subseteq mirror.keys
  BY <1>5 DEF Protect
<1> QED
  BY <1>0, <1>3, <1>4, <1>5, <1>6, <1>7, <1>8, <1>9
  DEF CarefulInv, RoleKept, FormsInv, AskedInv, Lead, None

\* Each step of each request takes what was asked for one copy further.
LEMMA CarefulStep ==
    ASSUME CarefulInv, [Step]_vars, Clean({"mirror", "page", "overlap"})
    PROVE  CarefulInv'
<1>0. TypeInv /\ TypeInv'
  BY TypesStep DEF CarefulInv
<1>c. UNCHANGED vars \/
        /\ pc = "syncing" /\ pc' = "reloading" => mirror' = Snapshot(file)
        /\ pc = "idle" /\ pc' = "saving" => Effective.on = Settled(page)
        /\ pc' # "idle" => seen' = None
  BY DEF Clean, Happens
<1> USE DEF CarefulInv, RoleKept, FormsInv, AskedInv, Lead, Edit
<1>t. /\ file \in Setting /\ want \in Setting /\ req \in Setting /\ seen \in Setting /\ mirror \in Visibles
      /\ Scalar \subseteq mirror.keys /\ (pc = "idle" <=> req = None) /\ (seen = None <=> news = {})
      /\ None.on = {}
  BY <1>0 DEF TypeInv, Types, TypeOK, None
<1>w. pc = "idle" /\ seen = None => want.on = Settled(Over(mirror, file.on))
  <2>1. file.on \cup {} = file.on
    OBVIOUS
  <2> QED
    BY <1>t, <2>1
<1>1. CASE EditNative
  <2>1. PICK flag \in Flag \ Imported :
          /\ Visible(mirror.on, flag)
          /\ mirror' = [keys |-> mirror.keys \cup Scalar \cup Domain \cup Old,
                        on |-> Toggled(mirror.on, flag)]
          /\ want' = [want EXCEPT !.on = Asked(mirror.on, flag)]
    BY <1>1 DEF EditNative
  <2>2. /\ pc = "idle" /\ pc' = pc
        /\ UNCHANGED <<file, running, page, req, seen, news>>
    BY <1>1 DEF EditNative
  <2>3. want'.on = Asked(mirror.on, flag) /\ want'.secret = want.secret
    BY <1>t, <2>1 DEF Setting
  <2>4. /\ "leader" \in file.on \cup news <=> "leader" \in mirror.on
        /\ file.on \cup news \in SUBSET Flag
        /\ (file.on \cup news) \cap Domain = file.on \cap Domain
        /\ Old \cap (file.on \cup news) = Old \cap file.on
    BY <1>0, ConfigAssumption DEF TypeInv, Types, Flag, Protect, Scalar, Setting
  <2>5. Settled(Over(mirror', file.on \cup news)) = want'.on
    BY <1>t, <2>1, <2>2, <2>3, <2>4, NativeForm
  <2>6. "leader" \in mirror'.on <=> "leader" \in mirror.on
    BY <2>1 DEF Visible, Toggled
  <2>7. "leader" \in want'.on <=> Lead
    BY <1>t, <2>1, <2>5, <2>6, LeaderKept, LeaderOver DEF Scalar
  <2>8. Lead => mirror'.on \cap Domain = mirror.on \cap Domain
    BY <2>1 DEF Visible, Toggled, FollowerOnly
  <2>9. mirror'.keys \cap Imported = mirror'.on \cap Imported
    BY <2>1, ConfigAssumption DEF Toggled, Protect, Scalar
  <2>10. Settled(want'.on) = want'.on
    BY <2>5, SettledTwice
  <2>11. Scalar \cup Domain \cup Old \subseteq mirror'.keys
    BY <2>1
  <2> QED
    BY <1>0, <1>t, <2>2, <2>3, <2>5, <2>6, <2>7, <2>8, <2>9, <2>10, <2>11
<1>2. CASE OpenSetup
  <2>1. /\ pc = "idle" /\ seen = None /\ pc' = "opening"
        /\ req' = [Effective EXCEPT !.secret = NewSecret]
        /\ want' = [want EXCEPT !.secret = NewSecret]
        /\ UNCHANGED <<file, mirror, running, page, seen, news>>
    BY <1>2, <1>c DEF OpenSetup, vars
  <2>2. /\ req'.on = Settled(Over(mirror, file.on)) /\ req'.secret = NewSecret
        /\ want'.on = want.on /\ want'.secret = NewSecret
    BY <1>0, <1>t, <2>1, EffectiveIs DEF Setting
  <2>3. req'.on = want.on
    BY <1>t, <2>1, <2>2
  <2>4. Settled(Over(mirror, req'.on)) = want.on
    <3>1. "leader" \in Over(mirror, file.on) <=> "leader" \in mirror.on
      BY <1>t, LeaderOver
    <3> QED
      <4>1. Settled(Over(mirror, Settled(Over(mirror, file.on)))) = Settled(Over(mirror, Over(mirror, file.on)))
        BY <1>t, <3>1, OverSettled
      <4> QED
        BY <1>w, <2>1, <2>3, <4>1, OverTwice
  <2>5. Lead => req'.on \cap Domain = mirror.on \cap Domain
    <3>1. ASSUME Lead, NEW x \in Domain PROVE x \in Settled(Over(mirror, file.on)) <=> x \in file.on
      <4>1. "leader" \in Over(mirror, file.on) /\ x # "automatic"
        BY <1>t, <3>1, LeaderOver, ConfigAssumption DEF Scalar
      <4>2. x \in Over(mirror, file.on) <=> x \in file.on
        BY <3>1 DEF Over, Read, FollowerOnly
      <4> QED
        BY <4>1, <4>2, SettledMember
    <3> QED
      BY <2>2, <3>1
  <2>6. ~Lead => Old \cap req'.on \subseteq mirror.keys
    <3>1. ASSUME ~Lead, NEW x \in Old, x \in Settled(Over(mirror, file.on)) PROVE x \in mirror.keys
      <4>1. x \in Over(mirror, file.on)
        BY <3>1, OthersPass, ConfigAssumption DEF Protect, Scalar
      <4> QED
        BY <2>1, <3>1, <4>1 DEF Over, Read
    <3> QED
      BY <2>2, <3>1
  <2> QED
    BY <1>0, <1>t, <2>1, <2>2, <2>3, <2>4, <2>5, <2>6
<1>3. CASE Load
  <2>1. /\ page' = Settled(file.on) /\ pc = "idle"
        /\ UNCHANGED <<file, mirror, running, pc, req, seen, news, want>>
    BY <1>3 DEF Load
  <2>2. Settled(page') = page' /\ ("leader" \in page' <=> Lead)
    BY <2>1, SettledTwice, LeaderKept
  <2> QED
    BY <1>0, <2>1, <2>2
<1>4. CASE ImportKey
  <2>1. /\ pc = "idle" /\ seen = None /\ pc' = "opening"
        /\ req' = [on |-> Settled(file.on), secret |-> NewSecret]
        /\ want' = [want EXCEPT !.secret = NewSecret]
        /\ UNCHANGED <<file, mirror, running, page, seen, news>>
    BY <1>4, <1>c DEF ImportKey, vars
  <2>2. want'.on = want.on /\ want'.secret = NewSecret
    BY <1>t, <2>1 DEF Setting
  <2>3. Settled(Over(mirror, req'.on)) = want.on
    <3>1. Settled(Over(mirror, Settled(file.on))) = Settled(Over(mirror, file.on))
      BY <1>t, OverSettled
    <3> QED
      BY <1>w, <2>1, <3>1
  <2>4. "leader" \in req'.on <=> Lead
    BY <2>1, LeaderKept
  <2>5. Lead => req'.on \cap Domain = mirror.on \cap Domain
    <3>1. ASSUME Lead, NEW x \in Domain PROVE x \in Settled(file.on) <=> x \in file.on
      BY <3>1, SettledMember, ConfigAssumption DEF Scalar
    <3> QED
      BY <2>1, <3>1
  <2>6. ~Lead => Old \cap req'.on \subseteq mirror.keys
    <3>1. ASSUME NEW x \in Old PROVE x \in Settled(file.on) <=> x \in file.on
      BY OthersPass, ConfigAssumption DEF Protect, Scalar
    <3> QED
      BY <2>1, <3>1
  <2> QED
    BY <1>0, <1>t, <2>1, <2>2, <2>3, <2>4, <2>5, <2>6
<1>5. CASE Store
  <2>1. /\ pc = "opening" /\ pc' = "idle" /\ file' = req /\ req' = None
        /\ UNCHANGED <<mirror, running, page, seen, news, want>>
    BY <1>5 DEF Store
  <2> QED
    BY <1>0, <1>t, <2>1
<1>6. CASE Save
  <2>1. PICK flag \in Flag :
          /\ Visible(page, flag)
          /\ req' = [on |-> Settled(Toggled(page, flag)), secret |-> file.secret]
          /\ want' = [want EXCEPT !.on = Asked(page, flag)]
    BY <1>6 DEF Save
  <2>2. /\ pc = "idle" /\ seen = None /\ pc' = "saving" /\ page # {}
        /\ Effective.on = Settled(page)
        /\ UNCHANGED <<file, mirror, running, page, seen, news>>
    BY <1>6, <1>c DEF Save, vars
  <2>3. want.on = page
    BY <1>0, <1>w, <2>2, EffectiveIs
  <2>4. Asked(page, flag) = Settled(Toggled(page, flag))
    <3>1. (Toggled(page, flag) \ (Domain \cup {"automatic"}))
             \cup (Toggled(page, flag) \cap (Domain \cup {"automatic"})) = Toggled(page, flag)
      OBVIOUS
    <3> QED
      BY <2>3, <3>1 DEF Asked, Toggled
  <2>5. req' = want'
    BY <1>t, <2>1, <2>2, <2>4 DEF Setting
  <2>6. "leader" \in req'.on <=> Lead
    BY <2>1, <2>3, LeaderKept DEF Visible, Toggled
  <2>7. Settled(want'.on) = want'.on
    BY <2>1, <2>5, SettledTwice
  <2>8. Lead => req'.on \cap Domain = mirror.on \cap Domain
    <3>1. ASSUME Lead, NEW x \in Domain PROVE x \in req'.on <=> x \in file.on
      <4>1. x # "automatic" /\ x # flag /\ "leader" \in Toggled(page, flag) /\ x \notin Scalar
        BY <2>1, <2>3, <3>1, ConfigAssumption DEF Visible, FollowerOnly, Toggled, Scalar
      <4>2. x \in req'.on <=> x \in page
        BY <2>1, <4>1, SettledMember DEF Toggled
      <4>3. x \in page <=> x \in Over(mirror, file.on)
        BY <1>0, <1>t, <2>2, <2>3, <3>1, <4>1, EffectiveIs, LeaderOver, SettledMember
      <4> QED
        BY <3>1, <4>2, <4>3 DEF Over, Read, FollowerOnly
    <3> QED
      BY <3>1
  <2> QED
    BY <1>0, <1>t, <2>2, <2>5, <2>6, <2>7, <2>8
<1>7. CASE ImportProfile
  <2>1. PICK cold \in SUBSET {"cold"} :
          /\ req' = [on |-> Profiled(page, cold), secret |-> NewSecret]
          /\ want' = [on |-> Profiled(want.on, cold), secret |-> NewSecret]
    BY <1>7 DEF ImportProfile
  <2>2. /\ pc = "idle" /\ seen = None /\ pc' = "saving" /\ page # {} /\ "leader" \notin page
        /\ Effective.on = Settled(page)
        /\ UNCHANGED <<file, mirror, running, page, seen, news>>
    BY <1>7, <1>c DEF ImportProfile, vars
  <2>3. want.on = page
    BY <1>0, <1>w, <2>2, EffectiveIs
  <2>4. req' = want' /\ "leader" \notin want'.on /\ Settled(want'.on) = want'.on
    BY <2>1, <2>2, <2>3, LeaderKept, SettledTwice DEF Profiled
  <2> QED
    BY <1>0, <1>t, <2>2, <2>3, <2>4
<1>8. CASE Write
  BY <1>0, <1>t, <1>8 DEF Write
<1>9. CASE Sync
  <2>1. /\ pc = "syncing" /\ pc' = "reloading" /\ mirror' = Snapshot(file)
        /\ UNCHANGED <<file, running, page, req, seen, news, want>>
    BY <1>9 DEF Sync
  <2>2. /\ mirror'.on = Normal(file.on)
        /\ mirror'.keys = Scalar \cup Domain \cup (Normal(file.on) \cap Protect)
    BY <1>t, <2>1, SnapshotIs
  <2>3. \A x : x # "automatic" => (x \in Normal(file.on) <=> x \in file.on)
    BY DEF Normal
  <2>4. mirror'.keys \cap Imported = mirror'.on \cap Imported
    BY <2>2, ConfigAssumption DEF Protect
  <2>5. mirror'.on \cap Domain = file.on \cap Domain
    BY <2>2, <2>3, ConfigAssumption DEF Scalar
  <2>6. "leader" \in mirror'.on <=> "leader" \in file.on
    BY <2>2, <2>3
  <2> QED
    BY <1>0, <1>t, <2>1, <2>2, <2>4, <2>5, <2>6
<1>10. CASE SyncFails
  <2>1. mirror' = Snapshot(file) /\ mirror' = mirror
    BY <1>10, <1>c DEF SyncFails, vars
  <2> QED
    BY <1>0, <1>10, <2>1 DEF SyncFails
<1>11. CASE Reload
  <2>1. /\ pc = "reloading" /\ pc' = "idle" /\ req' = None /\ seen = None
        /\ running' = Overlay([keys |-> Scalar, on |-> req.on], req)
        /\ page' = Settled(file.on) /\ file = want /\ req = want /\ mirror = Snapshot(file)
        /\ UNCHANGED <<file, mirror, seen, news, want>>
    BY <1>11 DEF Reload
  <2>2. running' = want
    BY <1>t, <2>1, ServiceReads
  <2>3. Overlay(mirror, file) = [on |-> Settled(file.on), secret |-> file.secret]
    BY <1>t, <2>1, MirrorHidesNothing
  <2>4. Settled(Over(mirror, file.on)) = want.on
    BY <1>0, <2>1, <2>3, EffectiveIs DEF Effective
  <2>5. ~Lead => Old \cap (mirror.on \cup file.on) \subseteq mirror.keys
    <3>1. \A x \in Old : x \in Normal(file.on) <=> x \in file.on
      BY ConfigAssumption DEF Normal, Protect, Scalar
    <3> QED
      BY <1>t, <2>1, <3>1, SnapshotIs DEF Protect
  <2>6. news = {} /\ page' = want.on
    BY <1>t, <2>1
  <2> QED
    BY <1>0, <1>t, <2>1, <2>2, <2>4, <2>5, <2>6
<1>12. CASE Restart
  <2>1. "leader" \in Effective.on <=> Lead
    BY <1>0, <1>t, EffectiveIs, LeaderKept, LeaderOver
  <2> QED
    BY <1>0, <1>t, <1>12, <2>1 DEF Restart
<1>13. CASE Remember
  <2>1. PICK flag \in Imported \ want.on : news' = {flag} /\ want' = [want EXCEPT !.on = @ \cup {flag}]
    BY <1>13 DEF Remember
  <2>2. /\ seen = None /\ news = {} /\ pc = "idle" /\ ~Lead /\ seen' = file
        /\ UNCHANGED <<file, mirror, running, page, pc, req>>
    BY <1>t, <1>0, <1>13, <1>c, NoneIs DEF Remember, vars, TypeInv, Types
  <2>3. want'.on = want.on \cup {flag} /\ want'.secret = want.secret
    BY <1>t, <2>1 DEF Setting
  <2>4. flag \notin Read(mirror)
    <3>1. want.on = Settled(Over(mirror, file.on))
      BY <2>2
    <3>2. flag \in mirror.keys => flag \in Over(mirror, file.on)
      BY <2>1, <2>2 DEF Over, Read
    <3>3. flag \notin Domain /\ flag # "automatic"
      BY <2>1, ConfigAssumption DEF Protect, Scalar
    <3>4. flag \notin mirror.keys
      BY <2>1, <3>1, <3>2, <3>3, OthersPass
    <3> QED
      BY <3>4 DEF Read
  <2>5. Settled(Over(mirror, file.on \cup {flag})) = want'.on
    BY <2>1, <2>2, <2>3, <2>4, OverProtected
  <2>6. Settled(want'.on) = want'.on
    BY <2>5, SettledTwice
  <2>7. "leader" \notin want'.on
    BY <2>1, <2>2, <2>3, ConfigAssumption DEF Scalar, Protect
  <2> QED
    BY <1>0, <1>t, <2>1, <2>2, <2>3, <2>5, <2>6, <2>7
<1>14. CASE Remembered
  <2>1. /\ seen # None /\ seen = file /\ pc = "idle"
        /\ file' = [seen EXCEPT !.on = @ \cup news] /\ seen' = None /\ news' = {}
        /\ UNCHANGED <<mirror, running, page, pc, req, want>>
    BY <1>14 DEF Remembered
  <2>2. file'.on = file.on \cup news /\ file'.secret = file.secret
    BY <1>t, <2>1 DEF Setting
  <2>3. /\ news \cap Domain = {} /\ news \cap Old = {} /\ "leader" \notin news
    BY <1>0, ConfigAssumption DEF TypeInv, Types, Protect, Scalar
  <2> QED
    BY <1>0, <1>t, <2>1, <2>2, <2>3
<1>15. CASE UNCHANGED vars
  BY <1>0, <1>15 DEF vars
<1> QED
  BY <1>1, <1>2, <1>3, <1>4, <1>5, <1>6, <1>7, <1>8, <1>9, <1>10, <1>11, <1>12, <1>13,
     <1>14, <1>15 DEF Step

\* As long as every mirror was written, no page was saved that was not what a
\* start would use, and no two writers overlapped, a start of the service uses
\* exactly what the operator and the imports have asked for, whichever form they
\* used.
THEOREM CarefulIsInEffect == Spec => []CarefulIsIntended
<1> DEFINE IntendedInv == mishaps = {} => CarefulInv
<1>1. Init => IntendedInv
  BY InitCareful
<1>2. TypeInv /\ IntendedInv /\ [Next]_<<vars, mishaps>> => IntendedInv'
  <2> SUFFICES ASSUME IntendedInv, [Next]_<<vars, mishaps>>, mishaps' = {} PROVE CarefulInv'
    OBVIOUS
  <2>1. mishaps = {} /\ Clean({"mirror", "page", "overlap"})
    <3>1. mishaps \subseteq mishaps'
      BY DEF Next
    <3> QED
      BY <3>1, HistoryIsNoted
  <2> QED
    BY <2>1, NextIsStep, CarefulStep
<1>3. TypeInv /\ IntendedInv => CarefulIsIntended
  <2> SUFFICES ASSUME TypeInv, CarefulInv, pc = "idle", seen = None PROVE Effective = want
    BY DEF CarefulIsIntended, EffectiveIsIntended, TypeInv
  <2>1. news = {} /\ want \in Setting
    BY DEF TypeInv, TypeOK, Types
  <2> QED
    BY <2>1, EffectiveIs DEF CarefulInv, AskedInv, Setting
<1> QED
  BY <1>1, <1>2, <1>3, InitTypes, NextIsStep, TypesStep, PTL DEF Spec

-----------------------------------------------------------------------------
(* 2. The selection of domains. *)

\* A preset is closed, and every pass adds only what is required.
SelectionInv ==
    /\ ScopeInv
    /\ scope \in {"custom", "legacy"} \cup DOMAIN Presets
    /\ scope \in DOMAIN Presets => Valid
    /\ \A d \in selected \ requested : \E e \in selected : d \in Dependencies[e]

\* What was asked for is a selection of known domains; a preset is closed.
LEMMA InitSelection ==
    ASSUME ScopeInit
    PROVE  SelectionInv
<1>1. CASE scope \in DOMAIN Presets
  BY <1>1, ScopeAssumption DEF ScopeInit, SelectionInv, ScopeInv, ScopeTypes,
              OnlyLegacyRefused, ResolvedIsLeast, Valid
<1>2. CASE scope \notin DOMAIN Presets
  BY <1>2 DEF ScopeInit, SelectionInv, ScopeInv, ScopeTypes,
              OnlyLegacyRefused, ResolvedIsLeast
<1> QED
  BY <1>1, <1>2

\* A pass adds what is required, and the validation accepts closed sets alone.
LEMMA SelectionStep ==
    ASSUME SelectionInv, [ScopeNext]_scopeVars
    PROVE  SelectionInv'
<1> USE DEF SelectionInv, ScopeInv, ScopeTypes, OnlyLegacyRefused,
            ResolvedIsLeast, Valid
<1>1. CASE Expand
  <2>1. /\ resolution = "expanding" /\ selected' = Pass
        /\ UNCHANGED <<scope, requested, resolution>>
    BY <1>1 DEF Expand
  <2>2. selected \subseteq selected' /\ selected' \subseteq Supported
    BY <2>1, ScopeAssumption DEF Pass
  <2>3. \A d \in selected' \ selected : \E e \in selected : d \in Dependencies[e]
    BY <2>1 DEF Pass
  <2>4. scope \in DOMAIN Presets => selected' = selected
    BY <2>1 DEF Pass
  <2> QED
    BY <2>1, <2>2, <2>3, <2>4
<1>2. CASE Resolve
  <2>1. /\ resolution' = IF Valid THEN "resolved" ELSE "refused"
        /\ scope = "custom" => Pass = selected
        /\ UNCHANGED <<scope, requested, selected>>
    BY <1>2 DEF Resolve
  <2>2. scope = "custom" => Valid
    BY <2>1 DEF Pass
  <2>3. scope \in {"custom", "legacy"} \cup DOMAIN Presets
    BY DEF SelectionInv
  <2> QED
    BY <2>1, <2>2, <2>3
<1>3. CASE UNCHANGED scopeVars
  BY <1>3 DEF scopeVars
<1> QED
  BY <1>1, <1>2, <1>3 DEF ScopeNext

\* Whatever the tables are, a selection is refused only where it was made under
\* a legacy scope, and an accepted one has all that it needs and no more.
THEOREM SelectionIsLeast == ScopeSpec => []ScopeInv
<1>1. SelectionInv => ScopeInv
  BY DEF SelectionInv
<1> QED
  BY <1>1, InitSelection, SelectionStep, PTL DEF ScopeSpec

\* A set of numbers that is not empty has a least one. (The sets 1..n are
\* ordered as the numbers n are, and the library knows that inclusion of
\* finite sets is well-founded.)
LEMMA LeastNumber ==
    ASSUME NEW S \in SUBSET Nat, S # {}
    PROVE  \E n \in S : \A m \in S : n <= m
<1> DEFINE below == StrictSubsetOrdering(Nat)
           T == {1..n : n \in S}
<1>1. IsWellFoundedOn(below, FiniteSubsetsOf(Nat))
  BY FS_StrictSubsetOrderingWellFounded
<1>2. T \subseteq FiniteSubsetsOf(Nat) /\ T # {}
  <2>1. \A n \in S : 1..n \in SUBSET Nat /\ IsFiniteSet(1..n)
    BY FS_Interval
  <2> QED
    BY <2>1 DEF FiniteSubsetsOf
<1> HIDE DEF below
<1>3. PICK t \in T : \A y \in T : <<y, t>> \notin below
  BY <1>1, <1>2, WFMin
<1>4. PICK n \in S : t = 1..n
  BY <1>3
<1>5. ASSUME NEW m \in S, m < n PROVE FALSE
  <2>1. 1..m \in SUBSET Nat /\ 1..n \in SUBSET Nat /\ 1..m \subseteq 1..n
    BY <1>5
  <2>2. n \in 1..n /\ n \notin 1..m
    BY <1>5
  <2>3. <<1..m, 1..n>> \in below
    BY <2>1, <2>2 DEF below, StrictSubsetOrdering
  <2> QED
    BY <1>3, <1>4, <2>3
<1> QED
  BY <1>5

\* The domains picked from the first n of the table.
PickedUpTo(picked, n) ==
    /\ picked \in Seq(ToSet(Adapters))
    /\ \A k \in DOMAIN picked : picked[k] \in selected
    /\ \A i \in 1..n : Adapters[i] \in selected =>
          \E k \in DOMAIN picked : picked[k] = Adapters[i]
    /\ \A k \in DOMAIN picked : \E i \in 1..n : picked[k] = Adapters[i]
    /\ \A k, l \in DOMAIN picked : \A i, j \in 1..n :
          k < l /\ picked[k] = Adapters[i] /\ picked[l] = Adapters[j] => i < j

\* Picking one more.
LEMMA PickOne ==
    ASSUME NEW n \in 1..Len(Adapters), NEW picked, PickedUpTo(picked, n - 1),
           Adapters[n] \in selected
    PROVE  PickedUpTo(Append(picked, Adapters[n]), n)
<1> DEFINE d == Adapters[n]
           next == Append(picked, d)
<1>1. /\ Adapters \in Seq(ToSet(Adapters))
      /\ \A i, j \in 1..Len(Adapters) : Adapters[i] = Adapters[j] => i = j
  BY ScopeAssumption DEF IsInjective
<1>2. d \in ToSet(Adapters) /\ Len(Adapters) \in Nat
  BY <1>1
<1> HIDE DEF d
<1>3. picked \in Seq(ToSet(Adapters))
  BY DEF PickedUpTo
<1>4. /\ next \in Seq(ToSet(Adapters)) /\ Len(next) = Len(picked) + 1 /\ Len(picked) \in Nat
      /\ next[Len(picked) + 1] = d
      /\ \A k \in 1..Len(picked) : next[k] = picked[k]
  BY <1>2, <1>3
<1> HIDE DEF next
<1>5. DOMAIN next = 1..(Len(picked) + 1) /\ DOMAIN picked = 1..Len(picked)
  BY <1>3, <1>4
<1>6. \A k \in DOMAIN next : k \in DOMAIN picked \/ (k = Len(picked) + 1 /\ next[k] = d)
  BY <1>4, <1>5
<1>7. \A i \in 1..n : i \in 1..(n - 1) \/ i = n
  BY <1>2
<1>8. \A k \in DOMAIN picked, i \in 1..n :
         picked[k] = Adapters[i] => i \in 1..(n - 1)
  <2> TAKE k \in DOMAIN picked, i \in 1..n
  <2>1. PICK j \in 1..(n - 1) : picked[k] = Adapters[j]
    BY DEF PickedUpTo
  <2>2. i \in 1..Len(Adapters) /\ j \in 1..Len(Adapters)
    BY <1>2
  <2> QED
    BY <1>1, <2>1, <2>2
<1>9. \A i \in 1..n : d = Adapters[i] => i = n
  BY <1>1, <1>2 DEF d
<1>10. \A k \in DOMAIN next : next[k] \in selected
  BY <1>4, <1>5, <1>6 DEF PickedUpTo, d
<1>11. ASSUME NEW i \in 1..n, Adapters[i] \in selected
       PROVE  \E k \in DOMAIN next : next[k] = Adapters[i]
  <2>1. CASE i = n
    BY <1>4, <1>5, <2>1 DEF d
  <2>2. CASE i \in 1..(n - 1)
    <3>1. PICK k \in DOMAIN picked : picked[k] = Adapters[i]
      BY <1>11, <2>2 DEF PickedUpTo
    <3> QED
      BY <1>4, <1>5, <3>1
  <2> QED
    BY <1>7, <2>1, <2>2
<1>12. ASSUME NEW k \in DOMAIN next PROVE \E i \in 1..n : next[k] = Adapters[i]
  <2>1. CASE k \in DOMAIN picked
    <3>1. PICK i \in 1..(n - 1) : picked[k] = Adapters[i]
      BY <2>1 DEF PickedUpTo
    <3> QED
      BY <1>2, <1>4, <1>5, <2>1, <3>1
  <2>2. CASE next[k] = d
    BY <1>2, <2>2 DEF d
  <2> QED
    BY <1>6, <2>1, <2>2
<1>13. ASSUME NEW k \in DOMAIN next, NEW l \in DOMAIN next, NEW i \in 1..n, NEW j \in 1..n,
              k < l, next[k] = Adapters[i], next[l] = Adapters[j]
       PROVE  i < j
  <2>1. k \in DOMAIN picked /\ next[k] = picked[k]
    BY <1>4, <1>5, <1>13
  <2>2. i \in 1..(n - 1) /\ picked[k] = Adapters[i]
    BY <1>8, <1>13, <2>1
  <2>3. CASE l \in DOMAIN picked
    <3>1. picked[l] = Adapters[j] /\ j \in 1..(n - 1)
      BY <1>4, <1>5, <1>8, <1>13, <2>3
    <3> QED
      BY <1>13, <2>1, <2>2, <2>3, <3>1 DEF PickedUpTo
  <2>4. CASE next[l] = d
    <3>1. j = n
      BY <1>9, <1>13, <2>4
    <3> QED
      BY <1>2, <2>2, <3>1
  <2> QED
    BY <1>6, <2>3, <2>4
<1> QED
  BY <1>4, <1>10, <1>11, <1>12, <1>13 DEF PickedUpTo, next, d

\* The results of the passes over the first m domains of the table.
PicksUpTo(f, m) ==
    f = [n \in 0..m |->
           IF n = 0 THEN <<>>
           ELSE IF Adapters[n] \in selected THEN Append(f[n - 1], Adapters[n])
           ELSE f[n - 1]]

LEMMA PicksExist == ASSUME NEW top \in Nat PROVE \E f : PicksUpTo(f, top)
<1> DEFINE Then(acc, n) == IF Adapters[n] \in selected
                             THEN Append(acc, Adapters[n]) ELSE acc
           By(f, m) == f = [n \in 0..m |-> IF n = 0 THEN <<>> ELSE Then(f[n - 1], n)]
           Bad == {m \in Nat : ~\E f : By(f, m)}
<1>1. ASSUME Bad # {} PROVE FALSE
  <2>1. PICK m \in Bad : \A l \in Bad : m <= l
    <3>1. Bad \in SUBSET Nat
      OBVIOUS
    <3> HIDE DEF Bad
    <3> QED
      BY <1>1, <3>1, LeastNumber
  <2> HIDE DEF Then
  <2>2. CASE m = 0
    <3>1. By([n \in 0..0 |-> <<>>], 0)
      OBVIOUS
    <3> QED
      BY <2>1, <2>2, <3>1
  <2>3. CASE m # 0
    <3>1. m - 1 \in Nat /\ m - 1 \notin Bad
      BY <2>1, <2>3
    <3>2. PICK f : By(f, m - 1)
      BY <3>1
    <3> DEFINE g == [n \in 0..m |-> IF n = m THEN Then(f[m - 1], m) ELSE f[n]]
    <3>3. \A n \in 0..(m - 1) : f[n] = IF n = 0 THEN <<>> ELSE Then(f[n - 1], n)
      BY <3>2
    <3>4. \A n \in 0..(m - 1) : g[n] = f[n]
      BY <3>1
    <3>5. g[m] = Then(f[m - 1], m)
      BY <3>1
    <3>6. DOMAIN g = 0..m /\ g = [n \in 0..m |-> g[n]]
      OBVIOUS
    <3> HIDE DEF g
    <3>7. \A n \in 0..m : g[n] = IF n = 0 THEN <<>> ELSE Then(g[n - 1], n)
      <4> TAKE n \in 0..m
      <4>1. n - 1 \in 0..(m - 1) \/ n = 0
        BY <3>1
      <4>2. n \in 0..(m - 1) \/ n = m
        BY <3>1
      <4> QED
        BY <2>3, <3>1, <3>3, <3>4, <3>5, <4>1, <4>2
    <3>8. By(g, m)
      BY <3>6, <3>7
    <3> QED
      BY <2>1, <3>8
  <2> QED
    BY <2>2, <2>3
<1>2. \E f : By(f, top)
  BY <1>1
<1> QED
  BY <1>2 DEF PicksUpTo

\* All of the selection is picked, in the order of the table (by the least pass
\* that misses a domain or breaks the order).
LEMMA AppliedIsPicked == PickedUpTo(Applied, Len(Adapters))
<1> DEFINE top == Len(Adapters)
           upTo[n \in 0..top] ==
             IF n = 0 THEN <<>>
             ELSE IF Adapters[n] \in selected THEN Append(upTo[n - 1], Adapters[n])
             ELSE upTo[n - 1]
<1>1. top \in Nat /\ Adapters \in Seq(ToSet(Adapters))
  BY ScopeAssumption
<1>2. Applied = upTo[top]
  BY DEF Applied
<1> HIDE DEF top
<1>3. PicksUpTo(upTo, top)
  <2>1. \E f : PicksUpTo(f, top)
    BY <1>1, PicksExist
  <2> QED
    BY <2>1 DEF PicksUpTo
<1> HIDE DEF upTo
<1>4. PickedUpTo(upTo[0], 0)
  <2>1. upTo[0] = <<>> /\ <<>> \in Seq(ToSet(Adapters)) /\ DOMAIN <<>> = {}
    BY <1>1, <1>3 DEF PicksUpTo
  <2> QED
    BY <2>1 DEF PickedUpTo
<1>5. ASSUME NEW n \in 1..top, PickedUpTo(upTo[n - 1], n - 1) PROVE PickedUpTo(upTo[n], n)
  <2>1. n \in 0..top /\ n # 0 /\ n \in 1..Len(Adapters)
    BY <1>1 DEF top
  <2>2. CASE Adapters[n] \in selected
    <3>1. upTo[n] = Append(upTo[n - 1], Adapters[n])
      BY <1>3, <2>1, <2>2 DEF PicksUpTo
    <3> QED
      BY <1>5, <2>1, <2>2, <3>1, PickOne
  <2>3. CASE Adapters[n] \notin selected
    <3>1. upTo[n] = upTo[n - 1]
      BY <1>3, <2>1, <2>3 DEF PicksUpTo
    <3>2. \A i \in 1..n : i \in 1..(n - 1) \/ i = n
      BY <1>1
    <3>3. \A i \in 1..(n - 1) : i \in 1..n
      BY <1>1
    <3>4. \A k \in DOMAIN upTo[n - 1] : upTo[n - 1][k] # Adapters[n]
      BY <1>5, <2>3 DEF PickedUpTo
    <3> QED
      BY <1>5, <2>3, <3>1, <3>2, <3>3, <3>4 DEF PickedUpTo
  <2> QED
    BY <2>2, <2>3
<1>6. PickedUpTo(upTo[top], top)
  <2> DEFINE Bad == {n \in 0..top : ~PickedUpTo(upTo[n], n)}
  <2> SUFFICES ASSUME Bad # {} PROVE FALSE
    BY <1>1
  <2>1. Bad \in SUBSET Nat
    BY <1>1
  <2>2. PICK n \in Bad : \A m \in Bad : n <= m
    <3> HIDE DEF Bad
    <3> QED
      BY <2>1, LeastNumber
  <2>3. n \in 1..top /\ n - 1 \in 0..top
    BY <1>1, <1>4, <2>2
  <2>4. PickedUpTo(upTo[n - 1], n - 1)
    BY <2>2, <2>3
  <2> QED
    BY <1>5, <2>2, <2>3, <2>4
<1> QED
  BY <1>2, <1>6 DEF top

\* Where the tables of config.py and domains.py agree, every selected domain is
\* applied, once, and after every domain its rows refer to, for every selection.
THEOREM AppliedFollowsTable ==
    ASSUME TablesAgree
    PROVE  ScopeSpec => []AppliedInOrder
<1>1. SelectionInv => AppliedInOrder
  <2> SUFFICES ASSUME selected \subseteq Supported, \A d \in selected : Dependencies[d] \subseteq selected
               PROVE  /\ ToSet(Applied) = selected /\ IsInjective(Applied)
                      /\ \A j \in DOMAIN Applied : \A d \in References[Applied[j]] :
                            \E i \in 1..(j - 1) : Applied[i] = d
    BY DEF SelectionInv, ScopeInv, ScopeTypes, ResolvedIsLeast, AppliedInOrder
  <2> DEFINE all == Applied
             table == DOMAIN Adapters
  <2>1. PickedUpTo(all, Len(Adapters)) /\ table = 1..Len(Adapters)
    BY AppliedIsPicked, ScopeAssumption
  <2> HIDE DEF all
  <2>2. /\ \A k \in DOMAIN all : all[k] \in selected /\ \E i \in table : all[k] = Adapters[i]
        /\ \A i \in table : Adapters[i] \in selected =>
              \E k \in DOMAIN all : all[k] = Adapters[i]
        /\ \A k, l \in DOMAIN all : \A i, j \in table :
              k < l /\ all[k] = Adapters[i] /\ all[l] = Adapters[j] => i < j
        /\ DOMAIN all = 1..Len(all) /\ Len(all) \in Nat
        /\ DOMAIN all \subseteq Nat /\ table \subseteq Nat
    <3>1. DOMAIN all = 1..Len(all) /\ Len(all) \in Nat /\ DOMAIN all \subseteq Nat
      BY <2>1 DEF PickedUpTo
    <3>2. table \subseteq Nat
      BY <2>1
    <3> HIDE DEF table
    <3> QED
      BY <2>1, <3>1, <3>2 DEF PickedUpTo
  <2>3. ToSet(all) = selected
    <3>1. \A d \in selected : \E i \in table : d = Adapters[i]
      BY DEF TablesAgree, ToSet
    <3> QED
      BY <2>2, <3>1 DEF ToSet
  <2> HIDE DEF table
  <2>4. ASSUME NEW k \in DOMAIN all, NEW l \in DOMAIN all, all[k] = all[l] PROVE k = l
    <3>1. PICK i \in table : all[k] = Adapters[i]
      BY <2>2
    <3>2. i \in Nat /\ k \in Nat /\ l \in Nat /\ ~(i < i)
      BY <2>2
    <3>3. k < l => i < i
      BY <2>2, <2>4, <3>1
    <3>4. l < k => i < i
      BY <2>2, <2>4, <3>1
    <3> QED
      BY <3>2, <3>3, <3>4
  <2>5. ASSUME NEW k \in DOMAIN all, NEW l \in DOMAIN all, all[k] \in References[all[l]]
        PROVE  k < l
    <3>1. PICK i \in table, j \in table : all[k] = Adapters[i] /\ all[l] = Adapters[j]
      BY <2>2
    <3>2. i < j
      BY <2>5, <3>1 DEF TablesAgree, table
    <3>3. i \in Nat /\ j \in Nat /\ k \in Nat /\ l \in Nat
      BY <2>2
    <3>4. l < k => j < i
      BY <2>2, <3>1
    <3>5. k # l
      <4>1. k = l => Adapters[i] \in References[Adapters[i]]
        BY <2>5, <3>1
      <4> QED
        BY <3>3, <4>1 DEF TablesAgree, table
    <3> QED
      BY <3>2, <3>3, <3>4, <3>5
  <2>6. ASSUME NEW j \in DOMAIN all, NEW d \in References[all[j]]
        PROVE  \E i \in 1..(j - 1) : all[i] = d
    <3>1. d \in selected
      <4>1. all[j] \in selected
        BY <2>2
      <4>2. d \in Dependencies[all[j]]
        BY <4>1 DEF TablesAgree
      <4> QED
        BY <4>1, <4>2
    <3>2. PICK i \in DOMAIN all : all[i] = d
      BY <2>3, <3>1 DEF ToSet
    <3>3. i < j
      BY <2>5, <3>2
    <3>4. i \in 1..Len(all) /\ j \in 1..Len(all) /\ Len(all) \in Nat
      BY <2>2
    <3> QED
      BY <3>2, <3>3, <3>4
  <2> QED
    BY <2>3, <2>4, <2>6 DEF all, IsInjective
<1> QED
  BY <1>1, InitSelection, SelectionStep, PTL DEF ScopeSpec

-----------------------------------------------------------------------------
(* 3. The helper process. *)

HelperTypes ==
    /\ state \in [Helper -> {"none", "new", "locked", "serving", "leaving", "crashed",
                             "closed", "unlinked", "done"}]
    /\ signal \in [Helper -> BOOLEAN]
    /\ owner \in [Helper -> BOOLEAN]
    /\ flushed \in [Helper -> BOOLEAN]
    /\ child \in [Worker -> Helper \cup {NoHelper}]
    /\ duty \in [Worker -> {"idle", "poll", "replace", "spawn", "wait", "failed", "ending"}]

\* Past the lock and not yet gone.
Holding(h) == state[h] \in {"locked", "serving", "leaving", "crashed", "closed", "unlinked"}

HelperInv ==
    /\ HelperTypes /\ HelperTypeOK
    /\ \A h \in Helper : Holding(h) => lock = h
    /\ \A h \in Helper : state[h] \in {"serving", "leaving", "crashed", "closed"} => pidFile = h

\* At first no process serves and nobody holds the lock.
LEMMA InitHelper ==
    ASSUME HelperInit
    PROVE  HelperInv
BY HelperAssumption DEF HelperInit, HelperInv, HelperTypes, HelperTypeOK, Holding

\* The steps of a helper touch the lock and the PID file only as it holds them.
LEMMA HelperKeepsInv ==
    ASSUME HelperInv, NEW h \in Helper, HelperStep(h)
    PROVE  HelperInv'
<1> USE HelperAssumption DEF HelperInv, HelperTypes, HelperTypeOK, Holding
<1>1. CASE TakeLock(h)
  BY <1>1 DEF TakeLock, Gone
<1>2. CASE DieEarly(h)
  BY <1>2 DEF DieEarly, Gone
<1>3. CASE Serve(h)
  BY <1>3 DEF Serve
<1>4. CASE OwnService(h)
  BY <1>4 DEF OwnService
<1>5. CASE Leave(h)
  BY <1>5 DEF Leave
<1>6. CASE StopService(h)
  BY <1>6 DEF StopService
<1>7. CASE StopServiceFails(h)
  BY <1>7 DEF StopServiceFails, Gone
<1>8. CASE Unlink(h)
  BY <1>8 DEF Unlink
<1>9. CASE Exit(h)
  BY <1>9 DEF Exit, Gone
<1> QED
  BY <1>1, <1>2, <1>3, <1>4, <1>5, <1>6, <1>7, <1>8, <1>9 DEF HelperStep

\* A worker starts fresh processes, signals and kills; it never takes the lock.
LEMMA WorkerKeepsInv ==
    ASSUME HelperInv, NEW w \in Worker, WorkerStep(w)
    PROVE  HelperInv'
<1> USE HelperAssumption DEF HelperInv, HelperTypes, HelperTypeOK, Holding,
            helperVars, Goto, Terminate
<1>1. CASE Start(w)
  BY <1>1 DEF Start
<1>2. CASE Poll(w)
  BY <1>2 DEF Poll, Alive
<1>3. CASE Replace(w)
  BY <1>3 DEF Replace
<1>4. CASE Spawn(w)
  BY <1>4 DEF Spawn
<1>5. CASE Started(w)
  BY <1>5 DEF Started
<1>6. CASE TimeOut(w)
  BY <1>6 DEF TimeOut
<1>7. CASE StartFails(w)
  BY <1>7 DEF StartFails, Alive
<1>8. CASE Stop(w)
  <2>1. UNCHANGED <<state, owner, flushed, lock, pidFile>> /\ ops' \in 0..MaxOps
    BY <1>8 DEF Stop
  <2>2. \/ signal' = signal
        \/ \E h \in Helper : state[h] # "none" /\ signal' = [signal EXCEPT ![h] = TRUE]
    <3>1. CASE Alive(child[w])
      BY <1>8, <3>1 DEF Stop, Alive
    <3>2. CASE ~Alive(child[w]) /\ Alive(pidFile)
      BY <1>8, <3>2 DEF Stop, Alive
    <3>3. CASE ~Alive(child[w]) /\ ~Alive(pidFile)
      BY <1>8, <3>3 DEF Stop
    <3> QED
      BY <3>1, <3>2, <3>3
  <2>3. \/ duty' = [duty EXCEPT ![w] = "ending"] /\ child' = child /\ child[w] \in Helper
        \/ duty[w] = "idle" /\ duty' = duty /\ child' = [child EXCEPT ![w] = NoHelper]
    BY <1>8 DEF Stop, Alive
  <2>4. signal' \in [Helper -> BOOLEAN]
        /\ \A h \in Helper : state[h] = "none" => ~signal'[h] /\ ~owner[h] /\ ~flushed[h]
    BY <2>2
  <2>5. /\ duty' \in [Worker -> {"idle", "poll", "replace", "spawn", "wait", "failed", "ending"}]
        /\ child' \in [Worker -> Helper \cup {NoHelper}]
        /\ \A v \in Worker : duty'[v] \in {"idle", "poll", "replace", "spawn", "wait", "failed", "ending"}
        /\ \A v \in Worker : duty'[v] \in {"replace", "wait", "ending"} => child'[v] \in Helper
    BY <2>3
  <2> QED
    BY <2>1, <2>4, <2>5
<1>9. CASE Ended(w)
  BY <1>9 DEF Ended
<1>10. CASE Kill(w)
  BY <1>10 DEF Kill, Gone, Alive
<1> QED
  BY <1>1, <1>2, <1>3, <1>4, <1>5, <1>6, <1>7, <1>8, <1>9, <1>10 DEF WorkerStep

\* Neither helpers nor workers break the invariant.
LEMMA NextKeepsInv ==
    ASSUME HelperInv, [HelperNext]_setupVars
    PROVE  HelperInv'
<1>1. CASE UNCHANGED setupVars
  BY <1>1 DEF setupVars, HelperInv, HelperTypes, HelperTypeOK, Holding
<1>2. CASE HelperNext
  BY <1>2, HelperKeepsInv, WorkerKeepsInv DEF HelperNext
<1> QED
  BY <1>1, <1>2

\* A helper past the lock holds it, and one that serves is named by the PID file.
THEOREM HelperInvariant == HelperSpec => []HelperInv
BY InitHelper, NextKeepsInv, PTL DEF HelperSpec

\* Every reachable state is well typed: what a worker waits for is a helper, and
\* only a helper that was started has been signalled.
THEOREM HelperTypeCorrect == HelperSpec => []HelperTypeOK
<1>1. HelperInv => HelperTypeOK
  BY DEF HelperInv
<1> QED
  BY <1>1, HelperInvariant, PTL

\* "single container-owned process": at most one helper serves the port or owns
\* the service, whoever starts, stops and kills them.
THEOREM OneHelperServes == HelperSpec => []OneServer
<1>1. HelperInv => OneServer
  BY DEF HelperInv, Holding, Serving, OneServer
<1> QED
  BY <1>1, HelperInvariant, PTL

\* The PID file names the serving helper, so any worker can stop it.
THEOREM PidFileNamesServer == HelperSpec => []PidNamesServer
<1>1. HelperInv => PidNamesServer
  BY DEF HelperInv, PidNamesServer, Serving
<1> QED
  BY <1>1, HelperInvariant, PTL

\* A serving helper that owns the service and is told to stop ends with the
\* final export, or is killed by the worker that waits for it.
THEOREM StopIsFlushed == HelperSpec => GracefulStopFlushes
<1> DEFINE Killed(h) == \E w \in Worker : child[w] = h /\ Kill(w)
           Flushes(h) == Serving(h) /\ signal[h] /\ owner[h] =>
                            Serving(h)' \/ flushed'[h] \/ Killed(h)
<1>1. ASSUME HelperInv, [HelperNext]_setupVars, NEW h \in Helper PROVE Flushes(h)
  <2> USE <1>1 DEF HelperInv, HelperTypes, Serving
  <2>1. CASE UNCHANGED setupVars
    BY <2>1 DEF setupVars
  <2>2. ASSUME NEW g \in Helper, HelperStep(g) PROVE Flushes(h)
    BY <2>2 DEF HelperStep, TakeLock, DieEarly, Serve, OwnService, Leave, StopService,
                StopServiceFails, Unlink, Exit, Gone
  <2>3. ASSUME NEW w \in Worker, WorkerStep(w), ~Kill(w) PROVE Flushes(h)
    BY <2>3 DEF WorkerStep, Start, Poll, Replace, Spawn, Started, TimeOut, StartFails,
                Stop, Ended, helperVars
  <2>4. ASSUME NEW w \in Worker, Kill(w) PROVE Flushes(h)
    <3>1. CASE child[w] = h
      BY <2>4, <3>1
    <3>2. CASE child[w] # h
      BY <2>4, <3>2 DEF Kill, Gone
    <3> QED
      BY <3>1, <3>2
  <2> QED
    BY <1>1, <2>1, <2>2, <2>3, <2>4 DEF HelperNext
<1>2. HelperInv /\ [HelperNext]_setupVars => [\A h \in Helper : Flushes(h)]_setupVars
  BY <1>1
<1> QED
  BY <1>2, HelperInvariant, PTL DEF HelperSpec, GracefulStopFlushes

=============================================================================
