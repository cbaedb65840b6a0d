-------------------------- MODULE ConnectionProofs --------------------------
(*****************************************************************************)
(* A gateway's connection, from the door to the frames.                      *)
(*                                                                           *)
(* The watcher: for every set of contents and every number of writes and     *)
(* restarts, the controls in force carry the mtime of the current file       *)
(* only when they are its contents.  Admission: the slots are the sessions,  *)
(* for any set of gateways, addresses, limits and contents of                *)
(* controls.json, and the watcher works alongside them.  Frames: for any     *)
(* frames, lengths and division of the stream into reads, the session's      *)
(* inbound half is, for safety, a FIFO channel, and what InBuf holds is      *)
(* bounded.                                                                  *)
(*****************************************************************************)
EXTENDS Admission, Frames, TLAPS, FiniteSetTheorems

-----------------------------------------------------------------------------
(* Controls: the watcher *)

States == Contents \cup {Bad, Absent}

\* What a write leaves of the file's earlier states.
LEMMA Appended ==
    ASSUME file \in Seq(States), NEW c \in States
    PROVE  /\ Append(file, c) \in Seq(States)
           /\ Len(Append(file, c)) = Len(file) + 1
           /\ \A v \in 1..Len(file) : Append(file, c)[v] = file[v]
           /\ Append(file, c)[Len(file) + 1] = c
  OBVIOUS

\* Prime's first state satisfies the inductive invariant.
LEMMA StampInit == Init => StampInv
  <1> SUFFICES ASSUME Init PROVE StampInv
    OBVIOUS
  <1>1. file \in Seq(States) /\ Len(file) = 1
    BY DEF Init, States
  <1> QED
    BY <1>1, ControlsAssumption DEF Init, StampInv, TypeOK, States, NoTime

\* Every step of the control plane, the watcher and a restart keeps it: the
\* watcher takes the mtime before the text, and the file only moves on.
LEMMA StampStep == StampInv /\ [Next]_vars => StampInv'
  <1> SUFFICES ASSUME StampInv, [Next]_vars PROVE StampInv'
    OBVIOUS
  <1>t. /\ file \in Seq(States)
        /\ Len(file) \in Nat /\ Len(file) >= 1
        /\ Current \in States
    BY DEF StampInv, TypeOK, Current, States
  <1>1. ASSUME NEW c \in States, Write(c) PROVE StampInv'
    <2>1. /\ file' \in Seq(States)
          /\ Len(file') = Len(file) + 1
          /\ \A v \in 1..Len(file) : file'[v] = file[v]
      BY <1>1, <1>t, Appended DEF Write
    <2>2. TypeOK'
      BY <1>1, <1>t, <2>1 DEF Write, StampInv, TypeOK, States
    <2>3. ASSUME NEW d, NEW time \in 1..Len(file), NoOlder(d, time)
          PROVE  NoOlder(d, time)'
      <3>1. PICK v \in time..Len(file) : file[v] = d
        BY <2>3 DEF NoOlder
      <3>2. v \in 1..Len(file) /\ v \in time..Len(file')
        BY <1>t, <2>1, <2>3
      <3> QED
        BY <3>1, <3>2, <2>1 DEF NoOlder
    <2>4. (stamp # NoTime => NoOlder(in_force, stamp))'
      <3>1. CASE stamp = NoTime
        BY <1>1, <3>1 DEF Write, NoTime
      <3>2. CASE stamp # NoTime
        <4>1. stamp \in 1..Len(file) /\ NoOlder(in_force, stamp)
          BY <3>2, <1>t DEF StampInv, TypeOK, NoTime
        <4>2. \E v \in stamp..Len(file') : file'[v] = in_force
          BY <4>1, <2>3 DEF NoOlder
        <4> QED
          BY <4>2, <1>1 DEF NoOlder, Write
      <3> QED
        BY <3>1, <3>2
    <2>5. (at = "apply" => NoOlder(loaded, load_stamp))'
      <3> SUFFICES ASSUME at = "apply" PROVE NoOlder(loaded, load_stamp)'
        BY <1>1 DEF Write
      <3>1. load_stamp \in 1..Len(file) /\ NoOlder(loaded, load_stamp)
        BY <1>t DEF StampInv, TypeOK
      <3>2. \E v \in load_stamp..Len(file') : file'[v] = loaded
        BY <3>1, <2>3 DEF NoOlder
      <3> QED
        BY <3>2, <1>1 DEF NoOlder, Write
    <2> QED
      BY <2>2, <2>4, <2>5 DEF StampInv
  <1>2. CASE Look
    BY <1>2, <1>t DEF Look, StampInv, TypeOK, NoOlder, States
  <1>3. CASE LoadMtime
    <2>1. CASE Current = Absent
      BY <1>3, <2>1, <1>t, ControlsAssumption
        DEF LoadMtime, StampInv, TypeOK, NoOlder, States, NoTime
    <2>2. CASE Current # Absent
      <3>1. load_stamp' \in 1..Len(file)
        BY <1>3, <2>2, <1>t DEF LoadMtime, Mtime
      <3> QED
        BY <1>3, <2>2, <3>1, <1>t
          DEF LoadMtime, StampInv, TypeOK, NoOlder, States
    <2> QED
      BY <2>1, <2>2
  <1>4. CASE LoadText
    <2>1. TypeOK'
      BY <1>4, <1>t DEF LoadText, StampInv, TypeOK, States
    <2>2. (stamp # NoTime => NoOlder(in_force, stamp))'
      BY <1>4 DEF LoadText, StampInv, NoOlder
    <2>3. (at = "apply" => NoOlder(loaded, load_stamp))'
      <3>1. load_stamp \in 1..Len(file)
        BY <1>4, <1>t DEF LoadText, StampInv, TypeOK
      <3>2. Len(file) \in load_stamp..Len(file) /\ file[Len(file)] = loaded'
        BY <3>1, <1>t, <1>4 DEF LoadText, Current
      <3> QED
        BY <3>2, <1>4 DEF LoadText, NoOlder
    <2> QED
      BY <2>1, <2>2, <2>3 DEF StampInv
  <1>5. CASE Apply
    <2>1. load_stamp \in 1..Len(file) /\ loaded \in Contents
      BY <1>5, <1>t DEF Apply, StampInv, TypeOK
    <2>2. TypeOK'
      BY <1>5, <2>1, <1>t DEF Apply, StampInv, TypeOK, States
    <2> QED
      BY <1>5, <2>2 DEF Apply, StampInv, NoOlder
  <1>6. CASE Restart
    BY <1>6, <1>t, ControlsAssumption
      DEF Restart, StampInv, TypeOK, NoOlder, States, NoTime
  <1>7. CASE UNCHANGED vars
    BY <1>7, <1>t DEF vars, StampInv, TypeOK, NoOlder, States
  <1> QED
    BY <1>1, <1>2, <1>3, <1>4, <1>5, <1>6, <1>7
      DEF Next, Watcher, Quiet, States

\* The inductive invariant holds in every state Prime reaches.
THEOREM StampInvariant == Spec => []StampInv
  BY StampInit, StampStep, PTL DEF Spec

\* Types, for every set of contents (Controls' state at controls.rs 22-48).
THEOREM ControlsTypeCorrect == Spec => []TypeOK
  <1>1. StampInv => TypeOK
    BY DEF StampInv
  <1> QED
    BY <1>1, StampInvariant, PTL

\* What is no older than the current mtime is current.
LEMMA StampCurrent == StampInv => StampedIsCurrent
  <1> SUFFICES ASSUME StampInv, stamp # NoTime, stamp = Len(file)
               PROVE  in_force = Current
    BY DEF StampedIsCurrent
  <1>1. PICK v \in stamp..Len(file) : file[v] = in_force
    BY DEF StampInv, NoOlder
  <1>2. v = Len(file)
    BY <1>1 DEF StampInv, TypeOK
  <1> QED
    BY <1>1, <1>2 DEF Current

\* The watcher never takes an older text for the current file: what carries
\* the current mtime is the current file's contents (main.rs 408-430 and
\* controls.rs 57-88).
THEOREM WatcherStampsWhatItRead == Spec => []StampedIsCurrent
  BY StampCurrent, StampInvariant, PTL

\* One step keeps NeverFailsOpen: only a load that finds no file clears the
\* controls, and the file's past stays what it was.
LEMMA HoldStep == StampInv /\ NeverFailsOpen /\ [Next]_vars => NeverFailsOpen'
  <1> SUFFICES ASSUME StampInv, NeverFailsOpen, [Next]_vars,
                      in_force' = Defaults, applied' # NoTime
               PROVE  \E v \in applied'..Len(file') : file'[v] = Absent
    BY DEF NeverFailsOpen, NoTime
  <1>t. /\ file \in Seq(States)
        /\ Len(file) \in Nat /\ Len(file) >= 1
        /\ applied \in 0..Len(file)
    BY DEF StampInv, TypeOK, States
  <1>1. ASSUME NEW c \in States, Write(c)
        PROVE  \E v \in applied'..Len(file') : file'[v] = Absent
    <2>1. PICK v \in applied..Len(file) : file[v] = Absent
      BY <1>1 DEF Write, NeverFailsOpen
    <2>2. v \in 1..Len(file) /\ applied' = applied
      BY <2>1, <1>1, <1>t DEF Write, NoTime
    <2>3. Len(file') = Len(file) + 1 /\ file'[v] = file[v]
      BY <1>1, <1>t, <2>2, Appended DEF Write
    <2> QED
      BY <1>t, <2>1, <2>2, <2>3
  <1>2. CASE Look
    BY <1>2 DEF Look, NeverFailsOpen
  <1>3. CASE LoadMtime
    <2>1. CASE Current = Absent
      <3>1. Len(file) \in applied'..Len(file') /\ file'[Len(file)] = Absent
        BY <1>3, <2>1, <1>t DEF LoadMtime, Current
      <3> QED
        BY <3>1
    <2>2. CASE Current # Absent
      BY <1>3, <2>2 DEF LoadMtime, NeverFailsOpen
    <2> QED
      BY <2>1, <2>2
  <1>4. CASE LoadText
    BY <1>4 DEF LoadText, NeverFailsOpen
  <1>5. CASE Apply
    <2>1. in_force' \in Contents
      BY <1>5 DEF Apply, StampInv, TypeOK
    <2> QED
      BY <2>1, ControlsAssumption
  <1>6. CASE Restart
    BY <1>6 DEF Restart
  <1>7. CASE UNCHANGED vars
    BY <1>7 DEF vars, NeverFailsOpen
  <1> QED
    BY <1>1, <1>2, <1>3, <1>4, <1>5, <1>6, <1>7
      DEF Next, Watcher, Quiet, States

\* A file that does not parse never lifts the controls in force, whatever the
\* writer does between the watcher's looks (controls.rs 53-88, main.rs
\* 417-430).
THEOREM WatcherNeverFailsOpen == Spec => []NeverFailsOpen
  <1>1. Init => NeverFailsOpen
    BY DEF Init, NeverFailsOpen
  <1> QED
    BY <1>1, HoldStep, StampInvariant, PTL DEF Spec

-----------------------------------------------------------------------------
(* Admission: the connections *)

AdmInv == AdmTypeOK /\ SlotsAreSessions

\* Connections alive, in all and of one address, are finitely many.
LEMMA LiveFinite ==
  /\ IsFiniteSet(Live) /\ Cardinality(Live) \in Nat
  /\ \A ip \in Ips : IsFiniteSet(LiveFrom(ip)) /\ Cardinality(LiveFrom(ip)) \in Nat
  <1>1. Live \subseteq Conns
    BY DEF Live
  <1>2. \A ip \in Ips : LiveFrom(ip) \subseteq Conns
    BY <1>1 DEF LiveFrom
  <1> QED
    BY <1>1, <1>2, FS_Subset, FS_CardinalityType, AdmissionAssumption

\* An address has live connections exactly when its count is not zero.
LEMMA CountedIsLive ==
  ASSUME NEW ip \in Ips, SlotsAreSessions
  PROVE  ip \in entries <=> per_ip[ip] # 0
  <1>1. per_ip[ip] = Cardinality(LiveFrom(ip))
    BY DEF SlotsAreSessions
  <1>2. per_ip[ip] = 0 <=> LiveFrom(ip) = {}
    BY <1>1, LiveFinite, FS_EmptySet
  <1>3. ip \in entries <=> LiveFrom(ip) # {}
    BY DEF SlotsAreSessions, LiveFrom, Live
  <1> QED
    BY <1>2, <1>3

\* What the invariant says depends on the connections' stages and the counts
\* alone: a step that moves no connection in or out keeps it.
LEMMA SameSlots ==
  ASSUME AdmInv, stage' \in [Conns -> Stages], Live' = Live,
         UNCHANGED <<total, per_ip, entries>>,
         rows' = {c \in Conns : stage'[c] = "served"},
         prime' \in {"starting", "listening"}
  PROVE  AdmInv'
  <1>1. \A ip \in Ips : LiveFrom(ip)' = LiveFrom(ip)
    BY DEF LiveFrom
  <1>2. AdmTypeOK'
    BY DEF AdmInv, AdmTypeOK
  <1>3. SlotsAreSessions'
    BY <1>1 DEF AdmInv, SlotsAreSessions
  <1> QED
    BY <1>2, <1>3 DEF AdmInv

\* Nothing is connected when Prime starts.
LEMMA NobodyLive ==
  ASSUME stage = [c \in Conns |-> "away"], total = 0,
         per_ip = [ip \in Ips |-> 0], entries = {}, rows = {}, prime = "starting"
  PROVE  AdmInv
  <1>1. Live = {} /\ \A ip \in Ips : LiveFrom(ip) = {}
    BY DEF Live, LiveFrom
  <1>2. Cardinality({}) = 0
    BY FS_EmptySet
  <1>3. rows = {c \in Conns : stage[c] = "served"}
    OBVIOUS
  <1>4. AdmTypeOK
    BY DEF AdmTypeOK, Stages
  <1>5. entries = {IpOf[c] : c \in Live}
    BY <1>1
  <1>6. ASSUME NEW ip \in Ips
        PROVE  per_ip[ip] = Cardinality(LiveFrom(ip)) /\ Cardinality(LiveFrom(ip)) <= MaxPerIp
    <2>1. Cardinality(LiveFrom(ip)) = 0
      BY <1>1, <1>2
    <2>2. per_ip[ip] = 0 /\ 0 <= MaxPerIp
      BY AdmissionAssumption
    <2> QED
      BY <2>1, <2>2
  <1>7. Cardinality(Live) = 0 /\ total = Cardinality(Live) /\ Cardinality(Live) <= MaxTotal
    BY <1>1, <1>2, AdmissionAssumption
  <1>8. SlotsAreSessions
    BY <1>3, <1>5, <1>6, <1>7 DEF SlotsAreSessions
  <1> QED
    BY <1>4, <1>8 DEF AdmInv

\* A connection that is let in takes one slot, under both limits; one turned
\* away takes none, though admit has looked its address up.
LEMMA AcceptStep ==
  ASSUME AdmInv, NEW c \in Conns, Accept(c)
  PROVE  AdmInv'
  <1> DEFINE ip == IpOf[c]
  <1>1. ip \in Ips /\ per_ip[ip] \in Nat /\ total \in Nat /\ stage[c] = "away"
    BY AdmissionAssumption DEF AdmInv, AdmTypeOK, Accept
  <1>2. CASE per_ip[ip] >= MaxPerIp
    <2>1. ip \in entries
      BY <1>1, <1>2, CountedIsLive, AdmissionAssumption DEF AdmInv
    <2>2. UNCHANGED <<stage, total, per_ip, entries, rows, prime>>
      BY <1>2, <2>1 DEF Accept
    <2>3. Live' = Live
      BY <2>2 DEF Live
    <2>4. stage' \in [Conns -> Stages] /\ prime' \in {"starting", "listening"}
      BY <2>2 DEF AdmInv, AdmTypeOK
    <2>5. rows' = {k \in Conns : stage'[k] = "served"}
      BY <2>2 DEF AdmInv, SlotsAreSessions
    <2> QED
      BY <2>2, <2>3, <2>4, <2>5, SameSlots
  <1>3. CASE ~(per_ip[ip] >= MaxPerIp)
    <2>1. /\ stage' = [stage EXCEPT ![c] = "admitted"]
          /\ total' = total + 1
          /\ per_ip' = [per_ip EXCEPT ![ip] = @ + 1]
          /\ entries' = entries \cup {ip}
          /\ rows' = rows /\ prime' = prime
          /\ total < MaxTotal
      BY <1>3 DEF Accept
    <2>2. stage \in [Conns -> Stages] /\ per_ip \in [Ips -> Nat]
      BY DEF AdmInv, AdmTypeOK
    <2>3. AdmTypeOK'
      BY <2>1, <2>2, <1>1 DEF AdmInv, AdmTypeOK, Stages
    <2>4. c \notin Live /\ Live' = Live \cup {c}
      BY <1>1, <2>1, <2>2 DEF Live
    <2>5. c \notin LiveFrom(ip) /\ LiveFrom(ip)' = LiveFrom(ip) \cup {c}
      BY <2>4 DEF LiveFrom
    <2>6. \A k \in Ips : k # ip => LiveFrom(k)' = LiveFrom(k)
      BY <2>4 DEF LiveFrom
    <2>7. Cardinality(Live') = Cardinality(Live) + 1
      BY <2>4, LiveFinite, FS_AddElement
    <2>8. Cardinality(LiveFrom(ip)') = Cardinality(LiveFrom(ip)) + 1
      BY <1>1, <2>5, LiveFinite, FS_AddElement
    <2>9. total' = Cardinality(Live') /\ Cardinality(Live') <= MaxTotal
      BY <1>1, <2>1, <2>7, AdmissionAssumption DEF AdmInv, SlotsAreSessions
    <2>10. ASSUME NEW k \in Ips
           PROVE  per_ip'[k] = Cardinality(LiveFrom(k)') /\ Cardinality(LiveFrom(k)') <= MaxPerIp
      <3>1. CASE k = ip
        BY <3>1, <1>1, <1>3, <2>1, <2>2, <2>8, AdmissionAssumption DEF AdmInv, SlotsAreSessions
      <3>2. CASE k # ip
        BY <3>2, <2>1, <2>2, <2>6 DEF AdmInv, SlotsAreSessions
      <3> QED
        BY <3>1, <3>2
    <2>11. entries' = {IpOf[k] : k \in Live'}
      BY <2>1, <2>4 DEF AdmInv, SlotsAreSessions
    <2>12. rows' = {k \in Conns : stage'[k] = "served"}
      BY <1>1, <2>1, <2>2 DEF AdmInv, SlotsAreSessions
    <2>13. SlotsAreSessions'
      BY <2>9, <2>10, <2>11, <2>12 DEF SlotsAreSessions
    <2> QED
      BY <2>3, <2>13 DEF AdmInv
  <1> QED
    BY <1>2, <1>3

\* A session that ended gives back exactly the slot it took.
LEMMA GiveBackStep ==
  ASSUME AdmInv, NEW c \in Conns, GiveBack(c)
  PROVE  AdmInv'
  <1> DEFINE ip == IpOf[c]
  <1>1. /\ ip \in Ips /\ per_ip[ip] \in Nat /\ total \in Nat
        /\ stage[c] = "leaving" /\ stage' = [stage EXCEPT ![c] = "away"]
        /\ stage \in [Conns -> Stages] /\ per_ip \in [Ips -> Nat]
        /\ rows' = rows /\ prime' = prime /\ total' = Less(total)
    BY AdmissionAssumption DEF AdmInv, AdmTypeOK, GiveBack
  <1>2. c \in Live /\ Live' = Live \ {c}
    BY <1>1 DEF Live
  <1>3. c \in LiveFrom(ip) /\ LiveFrom(ip)' = LiveFrom(ip) \ {c}
    BY <1>2 DEF LiveFrom
  <1>4. \A k \in Ips : k # ip => LiveFrom(k)' = LiveFrom(k)
    BY <1>2 DEF LiveFrom
  <1>5. Cardinality(Live') = Cardinality(Live) - 1 /\ Cardinality(Live) > 0
    <2>1. Cardinality(Live) # 0
      BY <1>2, LiveFinite, FS_EmptySet
    <2>2. Cardinality(Live \ {c}) = Cardinality(Live) - 1
      BY <1>2, LiveFinite, FS_RemoveElement
    <2> QED
      BY <1>2, <2>1, <2>2, LiveFinite
  <1>6. Cardinality(LiveFrom(ip)') = Cardinality(LiveFrom(ip)) - 1
        /\ Cardinality(LiveFrom(ip)) > 0
    <2>1. IsFiniteSet(LiveFrom(ip)) /\ Cardinality(LiveFrom(ip)) \in Nat
      BY <1>1, LiveFinite
    <2>2. Cardinality(LiveFrom(ip)) # 0
      BY <1>3, <2>1, FS_EmptySet
    <2>3. Cardinality(LiveFrom(ip) \ {c}) = Cardinality(LiveFrom(ip)) - 1
      BY <1>3, <2>1, FS_RemoveElement
    <2> QED
      BY <1>3, <2>1, <2>2, <2>3
  <1>7. per_ip[ip] = Cardinality(LiveFrom(ip)) /\ total = Cardinality(Live)
        /\ per_ip[ip] <= MaxPerIp /\ total <= MaxTotal
    BY <1>1 DEF AdmInv, SlotsAreSessions
  <1>8. ip \in entries
    BY <1>2 DEF AdmInv, SlotsAreSessions
  <1>9. per_ip' = [per_ip EXCEPT ![ip] = per_ip[ip] - 1] /\ total' = total - 1
    BY <1>1, <1>5, <1>6, <1>7, <1>8 DEF GiveBack, Less
  <1>10. AdmTypeOK'
    <2>1. entries' \subseteq Ips
      BY DEF AdmInv, AdmTypeOK, GiveBack
    <2>2. total' \in Nat /\ per_ip' \in [Ips -> Nat]
      BY <1>1, <1>5, <1>6, <1>7, <1>9
    <2> QED
      BY <1>1, <2>1, <2>2 DEF AdmInv, AdmTypeOK, Stages
  <1>11. total' = Cardinality(Live') /\ Cardinality(Live') <= MaxTotal
    BY <1>1, <1>5, <1>7, <1>9, AdmissionAssumption
  <1>12. ASSUME NEW k \in Ips
         PROVE  per_ip'[k] = Cardinality(LiveFrom(k)') /\ Cardinality(LiveFrom(k)') <= MaxPerIp
    <2>1. CASE k = ip
      BY <2>1, <1>1, <1>6, <1>7, <1>9, AdmissionAssumption
    <2>2. CASE k # ip
      BY <2>2, <1>1, <1>4, <1>9 DEF AdmInv, SlotsAreSessions
    <2> QED
      BY <2>1, <2>2
  <1>13. entries' = {IpOf[k] : k \in Live'}
    <2>1. CASE per_ip[ip] - 1 = 0
      <3>1. LiveFrom(ip)' = {}
        <4>1. IsFiniteSet(LiveFrom(ip)')
          BY <1>1, <1>3, LiveFinite, FS_RemoveElement
        <4> QED
          BY <4>1, <2>1, <1>6, <1>7, FS_EmptySet
      <3>2. entries' = entries \ {ip}
        BY <1>1, <2>1 DEF GiveBack, Less
      <3> QED
        BY <3>1, <3>2, <1>2 DEF AdmInv, SlotsAreSessions, LiveFrom
    <2>2. CASE per_ip[ip] - 1 # 0
      <3>1. LiveFrom(ip)' # {}
        BY <2>2, <1>6, <1>7, FS_EmptySet
      <3>2. entries' = entries
        BY <1>1, <1>6, <1>7, <2>2 DEF GiveBack, Less
      <3>3. PICK other \in Live' : IpOf[other] = ip
        BY <3>1 DEF LiveFrom
      <3> QED
        BY <3>2, <3>3, <1>2 DEF AdmInv, SlotsAreSessions
    <2> QED
      BY <2>1, <2>2
  <1>14. rows' = {k \in Conns : stage'[k] = "served"}
    BY <1>1 DEF AdmInv, SlotsAreSessions
  <1>15. SlotsAreSessions'
    BY <1>11, <1>12, <1>13, <1>14 DEF SlotsAreSessions
  <1> QED
    BY <1>10, <1>15 DEF AdmInv

\* One step of the accept loop, a session's task or the watcher.
LEMMA AdmStep == AdmInv /\ [AdmNext]_all_vars => AdmInv'
  <1> SUFFICES ASSUME AdmInv, [AdmNext]_all_vars
               PROVE  AdmInv'
    OBVIOUS
  <1>t. /\ stage \in [Conns -> Stages]
        /\ prime \in {"starting", "listening"}
        /\ rows = {c \in Conns : stage[c] = "served"}
    BY DEF AdmInv, AdmTypeOK, SlotsAreSessions
  <1>1. CASE UNCHANGED adm_vars
    <2>1. UNCHANGED <<stage, total, per_ip, entries, rows, prime>>
      BY <1>1 DEF adm_vars
    <2>2. Live' = Live /\ rows' = {c \in Conns : stage'[c] = "served"}
      BY <2>1, <1>t DEF Live
    <2> QED
      BY <2>1, <2>2, <1>t, SameSlots
  <1>2. CASE Listen
    <2>1. Live' = Live
      BY <1>2 DEF Listen, Live
    <2>2. rows' = {c \in Conns : stage'[c] = "served"}
      BY <1>2, <1>t DEF Listen
    <2>3. UNCHANGED <<total, per_ip, entries>> /\ stage' \in [Conns -> Stages]
          /\ prime' \in {"starting", "listening"}
      BY <1>2, <1>t DEF Listen
    <2> QED
      BY <2>1, <2>2, <2>3, SameSlots
  <1>3. ASSUME NEW c \in Conns, Accept(c)
        PROVE  AdmInv'
    BY <1>3, AcceptStep
  <1>4. ASSUME NEW c \in Conns, Hello(c) \/ Leave(c)
        PROVE  AdmInv'
    <2>1. stage' \in [Conns -> Stages]
      BY <1>4, <1>t DEF Hello, Leave, Stages
    <2>2. Live' = Live
      BY <1>4, <1>t DEF Hello, Leave, Live
    <2>3. rows' = {k \in Conns : stage'[k] = "served"}
      BY <1>4, <1>t DEF Hello, Leave
    <2>4. UNCHANGED <<total, per_ip, entries>> /\ prime' \in {"starting", "listening"}
      BY <1>4, <1>t DEF Hello, Leave
    <2> QED
      BY <2>1, <2>2, <2>3, <2>4, SameSlots
  <1>5. ASSUME NEW c \in Conns, GiveBack(c)
        PROVE  AdmInv'
    BY <1>5, GiveBackStep
  <1>6. CASE StopStart
    <2>1. Live' = {} /\ \A ip \in Ips : LiveFrom(ip)' = {}
      BY <1>6 DEF StopStart, Live, LiveFrom
    <2>2. Cardinality({}) = 0
      BY FS_EmptySet
    <2>3. rows' = {c \in Conns : stage'[c] = "served"}
      BY <1>6 DEF StopStart
    <2>4. AdmTypeOK'
      BY <1>6 DEF StopStart, AdmTypeOK, Stages
    <2>5. entries' = {IpOf[c] : c \in Live'}
      BY <1>6, <2>1 DEF StopStart
    <2>6. \A ip \in Ips : per_ip'[ip] = Cardinality(LiveFrom(ip)')
                         /\ Cardinality(LiveFrom(ip)') <= MaxPerIp
      BY <1>6, <2>1, <2>2, AdmissionAssumption DEF StopStart
    <2>7. total' = Cardinality(Live') /\ Cardinality(Live') <= MaxTotal
      BY <1>6, <2>1, <2>2, AdmissionAssumption DEF StopStart
    <2>8. SlotsAreSessions'
      BY <2>3, <2>5, <2>6, <2>7 DEF SlotsAreSessions
    <2> QED
      BY <2>4, <2>8 DEF AdmInv
  <1> QED
    BY <1>1, <1>2, <1>3, <1>4, <1>5, <1>6
      DEF AdmNext, WatcherStep, all_vars

\* No slot leaks and none is given back twice: counts, table and rows are the
\* sessions alive and the limits bound them, for any gateways, addresses and
\* limits (main.rs 342-385 and 432-445, state.rs Connections).
THEOREM SlotsExact == AdmSpec => []SlotsAreSessions
  <1>1. AdmInit => AdmInv
    BY NobodyLive DEF AdmInit
  <1>2. AdmInv => SlotsAreSessions
    BY DEF AdmInv
  <1> QED
    BY <1>1, <1>2, AdmStep, PTL DEF AdmSpec

\* Every step of Prime is a step of the control plane or the watcher, or
\* leaves them alone.
LEMMA WatcherAlongside == [AdmNext]_all_vars => [Next]_vars
  BY DEF AdmNext, all_vars, WatcherStep, Listen, Accept, Hello, Leave, GiveBack,
         StopStart, Next

\* Beside the accept loop and the sessions the watcher does what it does
\* alone: what is in force under the current mtime is the current file, and a
\* broken file lifts no ban (main.rs 342-430, controls.rs 53-88).
THEOREM BansNeverFailOpen == AdmSpec => [](StampedIsCurrent /\ NeverFailsOpen)
  <1>1. AdmInit => StampInv /\ NeverFailsOpen
    BY StampInit DEF AdmInit, Init, NeverFailsOpen, NoTime
  <1>2. StampInv /\ NeverFailsOpen /\ [AdmNext]_all_vars => (StampInv /\ NeverFailsOpen)'
    BY StampStep, HoldStep, WatcherAlongside
  <1>3. StampInv => StampedIsCurrent
    BY StampCurrent
  <1> QED
    BY <1>1, <1>2, <1>3, PTL DEF AdmSpec

-----------------------------------------------------------------------------
(* Frames: the stream a session reads *)

\* What appending a frame leaves of those before it.
LEMMA SentMore ==
  ASSUME sent \in Seq(Sent), NEW f \in Sent, sent' = Append(sent, f)
  PROVE  /\ sent' \in Seq(Sent)
         /\ Len(sent') = Len(sent) + 1
         /\ \A i \in 1..Len(sent) : sent'[i] = sent[i]
         /\ sent'[Len(sent) + 1] = f
  OBVIOUS

\* The fields of a frame that was sent.
LEMMA SentFields ==
  ASSUME sent \in Seq(Sent), NEW i \in 1..Len(sent)
  PROVE  sent[i].msg \in Msgs /\ sent[i].at \in Nat /\ sent[i].nonce \in Nat
  <1>1. sent[i] \in Sent
    OBVIOUS
  <1> QED
    BY <1>1 DEF Sent

\* The session starts with nothing sent and nothing read.
LEMMA FrameInit == StreamInit => FrameInv
  <1> SUFFICES ASSUME StreamInit
               PROVE  FrameInv
    OBVIOUS
  <1>1. StreamTypeOK
    BY DEF StreamInit, StreamTypeOK
  <1>2. StreamInv
    BY DEF StreamInit, StreamInv
  <1>3. StepInv
    BY DEF StreamInit, StepInv, Offset, At
  <1>4. PrefixInv
    BY DEF StreamInit, PrefixInv
  <1> QED
    BY <1>1, <1>2, <1>3, <1>4 DEF FrameInv

\* A frame sent starts where the last one ended, under the next key and nonce.
LEMMA SendStep ==
  ASSUME FrameInv, NEW m \in Msgs, Send(m)
  PROVE  FrameInv'
  <1> DEFINE f == [msg |-> m, at |-> written, key |-> send_key, nonce |-> send_nonce]
             n == Len(sent)
  <1>t. /\ written \in Nat /\ send_key \in Nat /\ send_nonce \in Nat
        /\ sent \in Seq(Sent) /\ n \in Nat
        /\ handled \in Seq(Msgs) /\ Len(handled) \in Nat /\ Len(handled) <= n
        /\ LenOf[m] \in Nat /\ HDR \in Nat /\ HDR > 0
    BY FramesAssumption DEF FrameInv, StreamTypeOK, PrefixInv
  <1>f. f \in Sent
    BY <1>t DEF Sent
  <1>s. /\ sent' = Append(sent, f)
        /\ written' = written + HDR + LenOf[m]
        /\ send_key' = send_key + 1
        /\ send_nonce' = Bump(m, send_nonce)
        /\ UNCHANGED <<arrived, data_len, pos, header, recv_key, recv_nonce, phase, handled>>
    BY DEF Send, inbuf
  <1>w. written' \in Nat /\ written < written'
    BY <1>t, <1>s
  <1>a. /\ sent' \in Seq(Sent)
        /\ Len(sent') = n + 1
        /\ \A i \in 1..n : sent'[i] = sent[i]
        /\ sent'[n + 1] = f
    BY <1>t, <1>f, <1>s, SentMore
  <1>1. StreamTypeOK'
    <2>1. send_nonce' \in Nat
      BY <1>t, <1>s DEF Bump
    <2>2. written' \in Nat /\ arrived' \in 0..written' /\ send_key' \in Nat
      BY <1>t, <1>s DEF FrameInv, StreamTypeOK
    <2> QED
      BY <1>s, <1>a, <2>1, <2>2 DEF FrameInv, StreamTypeOK
  <1>2. StreamInv'
    <2>1. ASSUME NEW i \in 1..(n + 1)
          PROVE  /\ sent'[i].key = i - 1
                 /\ sent'[i].at + HDR + LenOf[sent'[i].msg] =
                       IF i = n + 1 THEN written' ELSE sent'[i + 1].at
                 /\ Bump(sent'[i].msg, sent'[i].nonce) =
                       IF i = n + 1 THEN send_nonce' ELSE sent'[i + 1].nonce
                 /\ sent'[i].at < written'
      <3>1. CASE i = n + 1
        <4>1. sent'[i].msg = m /\ sent'[i].at = written
              /\ sent'[i].key = send_key /\ sent'[i].nonce = send_nonce
          BY <3>1, <1>a
        <4>2. send_key = n
          BY DEF FrameInv, StreamInv
        <4> QED
          BY <3>1, <4>1, <4>2, <1>t, <1>s
      <3>2. CASE i = n
        <4>1. i \in 1..n /\ DOMAIN sent = 1..n
          BY <3>2, <1>t
        <4>2. sent'[i] = sent[i] /\ sent'[i + 1].at = written /\ sent'[i + 1].nonce = send_nonce
          BY <3>2, <4>1, <1>a
        <4>3. /\ sent[i].key = i - 1
              /\ sent[i].at + HDR + LenOf[sent[i].msg] = written
              /\ Bump(sent[i].msg, sent[i].nonce) = send_nonce
              /\ sent[i].at < written
          BY <3>2, <4>1 DEF FrameInv, StreamInv
        <4>4. sent[i].at \in Nat
          BY <4>1, <1>t, SentFields
        <4>5. sent'[i].at < written' /\ i # n + 1
          <5>1. written \in Nat
            BY <1>t
          <5>2. sent[i].at < written'
            BY <5>1, <4>3, <4>4, <1>w
          <5> QED
            BY <5>2, <4>2, <3>2, <1>t
        <4> QED
          BY <4>2, <4>3, <4>5
      <3>3. CASE i < n
        <4>1. i \in DOMAIN sent /\ sent'[i] = sent[i] /\ sent'[i + 1] = sent[i + 1] /\ i # n
          <5>1. i \in 1..n /\ i + 1 \in 1..n /\ i # n /\ DOMAIN sent = 1..n
            BY <3>3, <1>t
          <5> QED
            BY <5>1, <1>a
        <4>2. /\ sent[i].key = i - 1
              /\ sent[i].at + HDR + LenOf[sent[i].msg] = sent[i + 1].at
              /\ Bump(sent[i].msg, sent[i].nonce) = sent[i + 1].nonce
              /\ sent[i].at < written
          BY <4>1 DEF FrameInv, StreamInv
        <4>3. sent[i].at \in Nat
          BY <3>3, <1>t, SentFields
        <4>4. sent'[i].at < written'
          <5>1. sent[i].at < written /\ written \in Nat
            BY <4>2, <1>t
          <5>2. sent[i].at < written'
            BY <5>1, <4>3, <1>w
          <5> QED
            BY <5>2, <4>1
        <4> QED
          <5>1. i # n + 1
            BY <3>3, <1>t
          <5> QED
            BY <4>1, <4>2, <4>4, <5>1
      <3> QED
        BY <3>1, <3>2, <3>3, <1>t
    <2>2. ASSUME NEW i \in 1..(n + 1), NEW j \in 1..(n + 1), i < j
          PROVE  sent'[i].at < sent'[j].at
      <3>1. i \in DOMAIN sent /\ sent'[i] = sent[i]
        BY <2>2, <1>t, <1>a, SMTT(30)
      <3>2. CASE j = n + 1
        BY <3>1, <3>2, <1>a DEF FrameInv, StreamInv
      <3>3. CASE j # n + 1
        <4>1. j \in DOMAIN sent /\ sent'[j] = sent[j]
          BY <3>3, <1>t, <1>a
        <4> QED
          BY <2>2, <3>1, <4>1 DEF FrameInv, StreamInv
      <3> QED
        BY <3>2, <3>3
    <2>3. DOMAIN sent' = 1..(n + 1) /\ sent' # << >>
      BY <1>a, <1>t
    <2>4. send_key' = Len(sent')
      BY <1>a, <1>s, <1>t DEF FrameInv, StreamInv
    <2> HIDE DEF f, n
    <2> QED
      BY <2>1, <2>2, <2>3, <2>4, <1>a DEF StreamInv, Bump
  <1>3. StepInv'
    BY <1>t, <1>s, <1>a DEF FrameInv, StepInv, Offset, At
  <1>4. PrefixInv'
    <2>1. handled' = handled /\ Len(handled) <= n + 1
      BY <1>t, <1>s
    <2>2. \A i \in DOMAIN handled : i \in 1..n /\ handled[i] = sent[i].msg
      BY <1>t DEF FrameInv, PrefixInv
    <2>3. \A i \in DOMAIN handled : handled[i] = sent'[i].msg
      BY <2>2, <1>a
    <2> QED
      BY <2>1, <2>3, <1>a DEF PrefixInv
  <1> QED
    BY <1>1, <1>2, <1>3, <1>4 DEF FrameInv

\* Steps that send nothing keep the stream, and steps that handle nothing keep
\* what was handled.
LEMMA StreamKept ==
  ASSUME FrameInv, UNCHANGED gateway
  PROVE  StreamInv'
  BY DEF FrameInv, StreamInv, gateway, Bump

\* make_room and read_buf do not move the receiver in the stream.
LEMMA ReadStep ==
  ASSUME FrameInv, NEW n \in 1..Chunk, Read(n)
  PROVE  FrameInv'
  <1>t. /\ written \in Nat /\ arrived \in 0..written
        /\ data_len \in 0..arrived /\ pos \in 0..data_len /\ n \in Nat
        /\ Drained \in 0..pos
    BY FramesAssumption DEF FrameInv, StreamTypeOK, Drained
  <1>s. /\ n <= written - arrived
        /\ arrived' = arrived + n
        /\ data_len' = data_len - Drained + n
        /\ pos' = pos - Drained
        /\ phase = "select" /\ phase' = "cut"
        /\ UNCHANGED <<sent, written, send_key, send_nonce>>
        /\ UNCHANGED <<header, recv_key, recv_nonce, handled>>
    BY DEF Read, gateway
  <1>1. StreamTypeOK'
    BY <1>t, <1>s DEF FrameInv, StreamTypeOK
  <1>2. StreamInv'
    BY <1>s, StreamKept DEF gateway
  <1>3. StepInv'
    <2>1. Offset' = Offset
      BY <1>t, <1>s DEF Offset
    <2> QED
      BY <2>1, <1>s DEF FrameInv, StepInv, At
  <1>4. PrefixInv'
    BY <1>s DEF FrameInv, PrefixInv
  <1> QED
    BY <1>1, <1>2, <1>3, <1>4 DEF FrameInv

\* A header is decoded where a frame starts and under that frame's key, so it
\* is that frame's.
LEMMA CutHeaderStep ==
  ASSUME FrameInv, CutHeader
  PROVE  FrameInv'
  <1>t. /\ written \in Nat /\ arrived \in 0..written
        /\ data_len \in 0..arrived /\ pos \in 0..data_len
        /\ sent \in Seq(Sent) /\ Len(sent) \in Nat
        /\ handled \in Seq(Msgs) /\ Len(handled) \in Nat /\ Len(handled) <= Len(sent)
        /\ HDR \in Nat /\ HDR > 0
    BY FramesAssumption DEF FrameInv, StreamTypeOK, PrefixInv
  <1>s. /\ phase = "cut" /\ header = NoHeader
        /\ UNCHANGED <<sent, written, send_key, send_nonce>>
        /\ UNCHANGED <<arrived, data_len, recv_nonce, handled>>
    BY DEF CutHeader, gateway
  <1>p. StreamInv' /\ PrefixInv'
    BY <1>s, StreamKept DEF FrameInv, PrefixInv, gateway
  <1>1. CASE Unread < HDR
    <2>1. phase' = "select" /\ UNCHANGED <<pos, header, recv_key>>
      BY <1>1 DEF CutHeader
    <2>2. StreamTypeOK'
      BY <1>s, <2>1 DEF FrameInv, StreamTypeOK
    <2>3. StepInv'
      BY <1>s, <2>1 DEF FrameInv, StepInv, Offset, At
    <2> QED
      BY <1>p, <2>2, <2>3 DEF FrameInv
  <1>2. CASE ~(Unread < HDR)
    <2>1. /\ pos' = pos + HDR /\ recv_key' = recv_key + 1 /\ phase' = phase
          /\ header' \in Decoded(Offset, recv_key)
      BY <1>2 DEF CutHeader
    <2>2. pos + HDR <= data_len
      BY <1>2, <1>t DEF Unread
    <2>3. /\ recv_key = Len(handled)
          /\ Offset = IF At <= Len(sent) THEN sent[At].at ELSE written
      BY <1>s DEF FrameInv, StepInv
    <2>4. Offset < written /\ Offset \in Nat
      BY <1>t, <2>2 DEF Offset
    <2>5. At \in 1..Len(sent) /\ Offset = sent[At].at
      BY <1>t, <2>3, <2>4 DEF At
    <2>6. {i \in DOMAIN sent : sent[i].at = Offset /\ sent[i].key = recv_key} = {At}
      <3>1. \A i \in DOMAIN sent : sent[i].key = i - 1
        BY DEF FrameInv, StreamInv
      <3>2. DOMAIN sent = 1..Len(sent)
        BY <1>t
      <3>3. recv_key = At - 1
        BY <1>t, <2>3 DEF At
      <3> QED
        BY <3>1, <3>2, <3>3, <2>5
    <2>7. header' = sent[At].msg
      BY <2>1, <2>6 DEF Decoded
    <2>8. sent[At].msg \in Msgs
      BY <1>t, <2>5, SentFields
    <2>9. StreamTypeOK'
      BY <1>t, <1>s, <2>1, <2>2, <2>7, <2>8 DEF FrameInv, StreamTypeOK
    <2>10. Offset' = Offset + HDR /\ At' = At
      BY <1>t, <1>s, <2>1 DEF Offset, At
    <2>11. header' # NoHeader
      BY <2>7, <2>8, FramesAssumption
    <2>12. recv_key' = At
      BY <2>1, <2>3 DEF At
    <2>13. StepInv'
      BY <1>t, <1>s, <2>5, <2>7, <2>10, <2>11, <2>12 DEF FrameInv, StepInv
    <2> QED
      BY <1>p, <2>9, <2>13 DEF FrameInv
  <1> QED
    BY <1>1, <1>2

\* What one frame more in hand means: the receiver is past the frame it was
\* at, with the next one's nonce.
LEMMA CutPayloadStep ==
  ASSUME FrameInv, CutPayload
  PROVE  FrameInv'
  <1>t. /\ written \in Nat /\ arrived \in 0..written
        /\ data_len \in 0..arrived /\ pos \in 0..data_len
        /\ sent \in Seq(Sent) /\ Len(sent) \in Nat
        /\ handled \in Seq(Msgs) /\ Len(handled) \in Nat /\ Len(handled) <= Len(sent)
        /\ HDR \in Nat /\ HDR > 0 /\ recv_nonce \in Nat
    BY FramesAssumption DEF FrameInv, StreamTypeOK, PrefixInv
  <1>s. /\ phase = "cut" /\ header # NoHeader /\ header \in Msgs
        /\ UNCHANGED <<sent, written, send_key, send_nonce>>
        /\ UNCHANGED <<arrived, data_len, recv_key>>
    BY DEF CutPayload, gateway, FrameInv, StreamTypeOK
  <1>p. StreamInv'
    BY <1>s, StreamKept DEF gateway
  <1>1. CASE Unread < LenOf[header]
    <2>1. phase' = "select" /\ UNCHANGED <<pos, header, recv_nonce, handled>>
      BY <1>1 DEF CutPayload
    <2>2. StreamTypeOK'
      BY <1>s, <2>1 DEF FrameInv, StreamTypeOK
    <2>3. StepInv'
      BY <1>s, <2>1 DEF FrameInv, StepInv, Offset, At
    <2>4. PrefixInv'
      BY <1>s, <2>1 DEF FrameInv, PrefixInv
    <2> QED
      BY <1>p, <2>2, <2>3, <2>4 DEF FrameInv
  <1>2. CASE ~(Unread < LenOf[header])
    <2>l. LenOf[header] \in Nat
      BY <1>s, FramesAssumption
    <2>1. /\ pos' = pos + LenOf[header] /\ header' = NoHeader
          /\ HandleFrame(header)
      BY <1>2 DEF CutPayload
    <2>2. pos' \in 0..data_len
      BY <1>2, <1>t, <2>1, <2>l DEF Unread
    <2>3. /\ At \in 1..Len(sent) /\ header = sent[At].msg /\ recv_key = At
          /\ Offset = sent[At].at + HDR /\ recv_nonce = sent[At].nonce
      BY <1>s, <1>t DEF FrameInv, StepInv, At
    <2>4. CASE phase' = "ended" /\ handled' = handled
      <3>1. recv_nonce' \in Nat
        BY <2>1, <1>t DEF HandleFrame, Bump
      <3>2. StreamTypeOK'
        BY <1>t, <1>s, <2>1, <2>2, <2>4, <3>1 DEF FrameInv, StreamTypeOK
      <3>3. StepInv'
        BY <2>4 DEF StepInv
      <3>4. PrefixInv'
        BY <1>s, <2>4 DEF FrameInv, PrefixInv
      <3> QED
        BY <1>p, <3>2, <3>3, <3>4 DEF FrameInv
    <2>5. CASE /\ phase' \in {"cut", "reply"} /\ handled' = Append(handled, header)
               /\ recv_nonce' = Bump(header, recv_nonce)
      <3>1. /\ handled' \in Seq(Msgs) /\ Len(handled') = Len(handled) + 1
            /\ \A i \in 1..Len(handled) : handled'[i] = handled[i]
            /\ handled'[At] = header
        BY <2>5, <1>s, <1>t DEF At
      <3>2. StreamTypeOK'
        BY <1>t, <1>s, <2>1, <2>2, <2>5, <3>1 DEF FrameInv, StreamTypeOK, Bump
      <3>3. PrefixInv'
        BY <1>t, <1>s, <2>3, <3>1, SMTT(30) DEF FrameInv, PrefixInv, At
      <3>4. Offset' = sent[At].at + HDR + LenOf[header] /\ At' = At + 1
        <4>1. Offset' = Offset + LenOf[header]
          BY <1>t, <1>s, <2>1, <2>l DEF Offset
        <4>2. sent[At].at \in Nat
          BY <1>t, <2>3, SentFields
        <4> QED
          BY <4>1, <4>2, <2>3, <2>l, <1>t, <3>1 DEF At
      <3>5. /\ Offset' = IF At = Len(sent) THEN written ELSE sent[At + 1].at
            /\ recv_nonce' = IF At = Len(sent) THEN send_nonce ELSE sent[At + 1].nonce
        <4>1. At \in DOMAIN sent
          BY <1>t, <2>3
        <4>2. /\ sent[At].at + HDR + LenOf[sent[At].msg] =
                    IF At = Len(sent) THEN written ELSE sent[At + 1].at
              /\ Bump(sent[At].msg, sent[At].nonce) =
                    IF At = Len(sent) THEN send_nonce ELSE sent[At + 1].nonce
          BY <4>1 DEF FrameInv, StreamInv
        <4> QED
          BY <4>2, <2>3, <2>5, <3>4
      <3>6. StepInv'
        <4>1. Len(handled') <= Len(sent') /\ recv_key' = Len(handled')
          BY <1>t, <1>s, <2>3, <3>1 DEF At
        <4>2. At' <= Len(sent') <=> At # Len(sent)
          BY <1>t, <1>s, <2>3, <3>4
        <4> QED
          BY <4>1, <4>2, <2>1, <1>s, <3>4, <3>5 DEF StepInv
      <3> QED
        BY <1>p, <3>2, <3>3, <3>6 DEF FrameInv
    <2> QED
      BY <2>1, <2>4, <2>5 DEF HandleFrame
  <1> QED
    BY <1>1, <1>2

\* Writing and being done with it, ending the session, and doing nothing.
LEMMA EndStep ==
  ASSUME FrameInv, LoopWrites \/ Written \/ End \/ UNCHANGED streamVars
  PROVE  FrameInv'
  <1>1. /\ UNCHANGED <<sent, written, send_key, send_nonce>>
        /\ UNCHANGED <<arrived, data_len, pos>>
        /\ UNCHANGED <<header, recv_key, recv_nonce, handled>>
        /\ phase' = phase \/ phase' \in {"select", "cut", "send", "ended"}
        /\ phase' # "ended" => phase # "ended"
    BY DEF LoopWrites, Written, End, streamVars, gateway, inbuf
  <1>2. StreamInv'
    BY <1>1, StreamKept DEF gateway
  <1>3. StreamTypeOK' /\ PrefixInv'
    BY <1>1 DEF FrameInv, StreamTypeOK, PrefixInv
  <1>4. StepInv'
    BY <1>1 DEF FrameInv, StepInv, Offset, At
  <1> QED
    BY <1>2, <1>3, <1>4 DEF FrameInv

\* One step of the gateway, TCP or the session.
LEMMA FrameStep == FrameInv /\ [StreamNext]_streamVars => FrameInv'
  BY SendStep, ReadStep, CutHeaderStep, CutPayloadStep, EndStep
    DEF StreamNext, ReadSome, Cut

\* The receiver always stands at the frame after those it handled, with that
\* frame's key and nonce, and what it handled is what was sent (session.rs
\* 236-266 and 320-372, frame.rs, crypto.rs).
THEOREM FramesInStep == StreamSpec => []FrameInv
  BY FrameInit, FrameStep, PTL DEF StreamSpec

-----------------------------------------------------------------------------
(* The refinement *)

\* The frames of s that follow the first Len(h).
After(s, h) == [i \in 1..(Len(s) - Len(h)) |-> s[i + Len(h)].msg]

\* They are a sequence, of the length one expects.
LEMMA AfterIs ==
  ASSUME NEW s \in Seq(Sent), NEW h \in Seq(Msgs), Len(h) <= Len(s)
  PROVE  /\ After(s, h) \in Seq(Msgs)
         /\ Len(After(s, h)) = Len(s) - Len(h)
         /\ \A i \in 1..(Len(s) - Len(h)) : After(s, h)[i] = s[i + Len(h)].msg
  <1>1. Len(s) \in Nat /\ Len(h) \in Nat
    OBVIOUS
  <1>2. ASSUME NEW i \in 1..(Len(s) - Len(h))
        PROVE  s[i + Len(h)].msg \in Msgs
    <2>1. s[i + Len(h)] \in Sent
      BY <1>1
    <2> QED
      BY <2>1 DEF Sent
  <1> QED
    BY <1>1, <1>2 DEF After

\* What waits in the abstract channel is the frames sent and not handled.
LEMMA WaitingIs ==
  ASSUME FrameInv
  PROVE  /\ Waiting \in Seq(Msgs)
         /\ Len(Waiting) = Len(sent) - Len(handled)
         /\ \A i \in 1..(Len(sent) - Len(handled)) :
               Waiting[i] = sent[i + Len(handled)].msg
  <1>1. sent \in Seq(Sent) /\ handled \in Seq(Msgs) /\ Len(handled) <= Len(sent)
    BY DEF FrameInv, StreamTypeOK, PrefixInv
  <1>2. Waiting = After(sent, handled)
    BY DEF Waiting, After
  <1> QED
    BY <1>1, <1>2, AfterIs

\* The same after a step.
LEMMA WaitingIsNext ==
  ASSUME FrameInv'
  PROVE  /\ Waiting' \in Seq(Msgs)
         /\ Len(Waiting') = Len(sent') - Len(handled')
         /\ \A i \in 1..(Len(sent') - Len(handled')) :
               Waiting'[i] = sent'[i + Len(handled')].msg
  <1>1. sent' \in Seq(Sent) /\ handled' \in Seq(Msgs) /\ Len(handled') <= Len(sent')
    BY DEF FrameInv, StreamTypeOK, PrefixInv
  <1>2. Waiting' = After(sent', handled')
    BY DEF Waiting, After
  <1> QED
    BY <1>1, <1>2, AfterIs

\* Sending a frame puts it at the end of the channel.
LEMMA SendEnqueues ==
  ASSUME FrameInv, NEW m \in Msgs, Send(m)
  PROVE  F!Enqueue(m)
  <1>1. FrameInv'
    BY SendStep
  <1> DEFINE f == [msg |-> m, at |-> written, key |-> send_key, nonce |-> send_nonce]
  <1>2. sent' = Append(sent, f) /\ handled' = handled /\ phase' = phase
    BY DEF Send
  <1>3. f \in Sent /\ sent \in Seq(Sent)
    BY DEF FrameInv, StreamTypeOK, Sent
  <1>4. /\ Len(sent') = Len(sent) + 1
        /\ \A i \in 1..Len(sent) : sent'[i] = sent[i]
        /\ sent'[Len(sent) + 1].msg = m
    BY <1>2, <1>3, SentMore
  <1>5. /\ Waiting' \in Seq(Msgs)
        /\ Len(Waiting') = Len(sent') - Len(handled')
        /\ \A i \in 1..(Len(sent') - Len(handled')) :
              Waiting'[i] = sent'[i + Len(handled')].msg
    BY <1>1, WaitingIsNext
  <1>6. Len(sent) \in Nat /\ Len(handled) \in Nat /\ Len(handled) <= Len(sent)
    BY DEF FrameInv, StreamTypeOK, PrefixInv
  <1>7. Len(Waiting') = Len(Waiting) + 1
    BY <1>2, <1>4, <1>5, <1>6, WaitingIs
  <1>8. ASSUME NEW i \in 1..(Len(Waiting) + 1)
        PROVE  Waiting'[i] = Append(Waiting, m)[i]
    <2>1. Waiting'[i] = sent'[i + Len(handled)].msg
      <3>1. i \in 1..(Len(sent') - Len(handled'))
        BY <1>2, <1>4, <1>6, WaitingIs
      <3> QED
        BY <3>1, <1>2, <1>5
    <2>2. CASE i = Len(Waiting) + 1
      <3>1. i + Len(handled) = Len(sent) + 1
        BY <2>2, <1>6, WaitingIs
      <3>2. Append(Waiting, m)[i] = m
        BY <2>2, WaitingIs
      <3> QED
        BY <2>1, <3>1, <3>2, <1>4
    <2>3. CASE i # Len(Waiting) + 1
      <3>1. i \in 1..Len(Waiting) /\ i + Len(handled) \in 1..Len(sent)
        BY <2>3, <1>6, WaitingIs
      <3>2. Append(Waiting, m)[i] = Waiting[i]
        BY <3>1, WaitingIs
      <3>3. Waiting[i] = sent[i + Len(handled)].msg
        BY <3>1, WaitingIs
      <3> QED
        BY <2>1, <3>1, <3>2, <3>3, <1>4
    <2> QED
      BY <2>2, <2>3
  <1>9. Append(Waiting, m) \in Seq(Msgs) /\ Len(Append(Waiting, m)) = Len(Waiting) + 1
    BY WaitingIs
  <1>10. Waiting' = Append(Waiting, m)
    BY <1>5, <1>7, <1>8, <1>9
  <1> QED
    BY <1>2, <1>10 DEF F!Enqueue, Open

\* A payload that is cut and accepted is the channel's first frame.
LEMMA CutHandles ==
  ASSUME FrameInv, CutPayload, phase' \in {"cut", "reply"}
  PROVE  F!Handle
  <1>1. FrameInv'
    BY CutPayloadStep
  <1>2. /\ phase = "cut" /\ header # NoHeader /\ header \in Msgs
        /\ sent' = sent /\ handled' = Append(handled, header)
    BY DEF CutPayload, HandleFrame, gateway, FrameInv, StreamTypeOK
  <1>3. /\ Len(sent) \in Nat /\ Len(handled) \in Nat /\ handled \in Seq(Msgs)
        /\ At <= Len(sent) /\ header = sent[At].msg
    BY <1>2 DEF FrameInv, StreamTypeOK, StepInv
  <1>4. Len(handled') = Len(handled) + 1
    BY <1>2, <1>3
  <1>5. Waiting # << >> /\ Head(Waiting) = header
    <2>1. Len(Waiting) >= 1 /\ Waiting[1] = sent[1 + Len(handled)].msg
      BY <1>3, WaitingIs DEF At
    <2>2. 1 + Len(handled) = At
      BY <1>3 DEF At
    <2> QED
      BY <2>1, <2>2, <1>3, WaitingIs
  <1>6. /\ Waiting' \in Seq(Msgs)
        /\ Len(Waiting') = Len(sent) - (Len(handled) + 1)
        /\ \A i \in 1..(Len(sent) - (Len(handled) + 1)) :
              Waiting'[i] = sent[i + (Len(handled) + 1)].msg
    BY <1>1, <1>2, <1>4, WaitingIsNext
  <1>7. /\ Tail(Waiting) \in Seq(Msgs)
        /\ Len(Tail(Waiting)) = Len(Waiting) - 1
        /\ \A i \in 1..(Len(Waiting) - 1) : Tail(Waiting)[i] = Waiting[i + 1]
    BY <1>5, WaitingIs
  <1>8. Len(Waiting') = Len(Tail(Waiting))
    <2>1. Len(Waiting) = Len(sent) - Len(handled)
      BY WaitingIs
    <2> QED
      BY <2>1, <1>3, <1>6, <1>7
  <1>9. ASSUME NEW i \in 1..Len(Waiting')
        PROVE  Waiting'[i] = Tail(Waiting)[i]
    <2>1. Tail(Waiting)[i] = Waiting[i + 1]
      BY <1>7, <1>8
    <2>2. i + 1 \in 1..(Len(sent) - Len(handled))
      BY <1>3, <1>6
    <2>3. Waiting[i + 1] = sent[i + 1 + Len(handled)].msg
      BY <2>2, WaitingIs
    <2>4. i + 1 + Len(handled) = i + (Len(handled) + 1)
      BY <1>3
    <2> QED
      BY <2>1, <2>3, <2>4, <1>6
  <1>10. Waiting' = Tail(Waiting)
    BY <1>6, <1>7, <1>8, <1>9
  <1>11. Open = "yes" /\ Open' \in {"yes", "waits"}
    BY <1>2 DEF Open
  <1> QED
    BY <1>2, <1>5, <1>10, <1>11 DEF F!Handle

\* However the stream is divided into reads, the session handles the frames a
\* gateway sent once each and in order, and none after it has ended
\* (session.rs 236-266 and 320-372): Frames implements Fifo's safety.
THEOREM FramesImplementFifo == StreamSpec => F!FifoSafe
  <1>1. StreamInit => F!FifoInit
    <2> SUFFICES ASSUME StreamInit
                 PROVE  F!FifoInit
      OBVIOUS
    <2>1. Waiting = << >>
      BY FrameInit, WaitingIs DEF StreamInit
    <2> QED
      BY <2>1 DEF StreamInit, Open, F!FifoInit
  <1>2. FrameInv /\ [StreamNext]_streamVars => [F!FifoNext]_(F!fifo_vars)
    <2> SUFFICES ASSUME FrameInv, [StreamNext]_streamVars
                 PROVE  F!FifoNext \/ UNCHANGED F!fifo_vars
      OBVIOUS
    <2>1. ASSUME NEW m \in Msgs, Send(m)
          PROVE  F!FifoNext
      BY <2>1, SendEnqueues DEF F!FifoNext
    <2>2. ASSUME UNCHANGED <<sent, handled>>, phase' = "ended"
          PROVE  F!FifoNext
      <3>1. Waiting' = Waiting
        BY <2>2 DEF Waiting
      <3>2. F!Close
        BY <2>2, <3>1 DEF Open, F!Close
      <3> QED
        BY <3>2 DEF F!FifoNext
    <2>3. ASSUME UNCHANGED <<sent, handled>>, Open' = Open
          PROVE  UNCHANGED F!fifo_vars
      <3>1. Waiting' = Waiting
        BY <2>3 DEF Waiting
      <3> QED
        BY <2>3, <3>1 DEF F!fifo_vars
    <2>4. CASE ReadSome \/ CutHeader
      <3>1. UNCHANGED <<sent, handled>> /\ Open' = Open
        BY <2>4 DEF ReadSome, Read, CutHeader, gateway, Open
      <3> QED
        BY <3>1, <2>3
    <2>5. CASE CutPayload
      <3>1. CASE phase' \in {"cut", "reply"}
        BY <2>5, <3>1, CutHandles DEF F!FifoNext
      <3>2. CASE phase' = "ended"
        <4>1. UNCHANGED <<sent, handled>>
          BY <2>5, <3>2 DEF CutPayload, HandleFrame, gateway
        <4> QED
          BY <4>1, <3>2, <2>2
      <3>3. CASE phase' = "select"
        <4>1. UNCHANGED <<sent, handled>> /\ Open' = Open
          BY <2>5, <3>3 DEF CutPayload, HandleFrame, gateway, Open
        <4> QED
          BY <4>1, <3>3, <2>3
      <3> QED
        BY <2>5, <3>1, <3>2, <3>3 DEF CutPayload, HandleFrame
    <2>6. CASE End
      BY <2>6, <2>2 DEF End, gateway
    <2>7. CASE LoopWrites \/ Written
      <3>1. Waiting' = Waiting /\ handled' = handled
        BY <2>7 DEF LoopWrites, Written, gateway, Waiting
      <3>2. \/ Open = "yes" /\ Open' = "waits"
            \/ Open = "waits" /\ Open' = "yes"
        BY <2>7 DEF LoopWrites, Written, Open
      <3> QED
        BY <3>1, <3>2 DEF F!FifoNext, F!Wait, F!Resume
    <2>8. CASE UNCHANGED streamVars
      BY <2>8, <2>3 DEF streamVars, gateway, Open
    <2> QED
      BY <2>1, <2>4, <2>5, <2>6, <2>7, <2>8 DEF StreamNext, Cut
  <1> QED
    BY <1>1, <1>2, FramesInStep, PTL DEF StreamSpec, F!FifoSafe

-----------------------------------------------------------------------------
(* The buffer *)

Longest == IF HDR > MaxLen THEN HDR ELSE MaxLen

\* Outside the cutting loop the session holds less than one part of a frame.
BufferInv == BufferBounded /\ (phase \in {"select", "send"} => Unread < Longest)

\* One step keeps the bound: only a read adds bytes, and make_room has dropped
\* at least half of what it found unless less than half was used.
LEMMA BufferStep == FrameInv /\ BufferInv /\ [StreamNext]_streamVars => BufferInv'
  <1> SUFFICES ASSUME FrameInv, BufferInv, [StreamNext]_streamVars
               PROVE  BufferInv'
    OBVIOUS
  <1>t. /\ data_len \in Nat /\ pos \in 0..data_len /\ Longest \in Nat /\ Chunk \in Nat
        /\ HDR <= Longest /\ \A m \in Msgs : LenOf[m] \in Nat /\ LenOf[m] <= Longest
    BY FramesAssumption DEF FrameInv, StreamTypeOK, Longest
  <1>b. data_len <= 2 * Longest + Chunk
    BY DEF BufferInv, BufferBounded, Longest
  <1>1. ASSUME NEW n \in 1..Chunk, Read(n)
        PROVE  BufferInv'
    <2>1. /\ phase = "select" /\ phase' = "cut"
          /\ data_len' = data_len - Drained + n
      BY <1>1 DEF Read
    <2>2. data_len - pos < Longest
      BY <2>1 DEF BufferInv, Unread
    <2>3. data_len - Drained <= 2 * Longest
      <3>1. CASE pos > 0 /\ pos >= data_len \div 2
        BY <3>1, <2>2, <1>t DEF Drained
      <3>2. CASE ~(pos > 0 /\ pos >= data_len \div 2)
        BY <3>2, <2>2, <1>t DEF Drained
      <3> QED
        BY <3>1, <3>2
    <2>4. Drained \in Nat /\ n \in Nat /\ n <= Chunk
      BY <1>t DEF Drained
    <2>5. data_len' <= 2 * Longest + Chunk
      BY <2>1, <2>3, <2>4, <1>t
    <2> QED
      BY <2>1, <2>5 DEF BufferInv, BufferBounded, Longest
  <1>2. CASE CutHeader
    <2>1. data_len' = data_len /\ phase = "cut"
      BY <1>2 DEF CutHeader
    <2>2. phase' \in {"select", "send"} => Unread < HDR /\ pos' = pos
      BY <1>2 DEF CutHeader
    <2>3. phase' \in {"select", "send"} => Unread' < Longest
      BY <2>1, <2>2, <1>t, FramesAssumption DEF Unread
    <2> QED
      BY <2>1, <2>3, <1>b DEF BufferInv, BufferBounded, Longest
  <1>3. CASE CutPayload
    <2>1. data_len' = data_len /\ phase = "cut" /\ header \in Msgs
      BY <1>3 DEF CutPayload, FrameInv, StreamTypeOK
    <2>2. phase' \in {"select", "send"} => Unread < LenOf[header] /\ pos' = pos
      BY <1>3, <2>1 DEF CutPayload, HandleFrame
    <2>3. phase' \in {"select", "send"} => Unread' < Longest
      BY <2>1, <2>2, <1>t DEF Unread
    <2> QED
      BY <2>1, <2>3, <1>b DEF BufferInv, BufferBounded, Longest
  <1>4. ASSUME NEW m \in Msgs, Send(m)
        PROVE  BufferInv'
    BY <1>4 DEF Send, inbuf, BufferInv, BufferBounded, Unread, Longest
  <1>5. CASE LoopWrites \/ Written \/ End \/ UNCHANGED streamVars
    BY <1>5 DEF LoopWrites, Written, End, streamVars, inbuf, BufferInv, BufferBounded, Unread, Longest
  <1> QED
    BY <1>1, <1>2, <1>3, <1>4, <1>5 DEF StreamNext, ReadSome, Cut

\* A session's input buffer does not grow with its traffic, for any lengths
\* and any reads (session.rs InBuf::take and make_room, 889-915).
THEOREM InBufIsBounded == StreamSpec => []BufferBounded
  <1>1. StreamInit => BufferInv
    BY FramesAssumption DEF StreamInit, BufferInv, BufferBounded, Unread, Longest
  <1>2. BufferInv => BufferBounded
    BY DEF BufferInv
  <1> QED
    BY <1>1, <1>2, BufferStep, FramesInStep, PTL DEF StreamSpec
=============================================================================
