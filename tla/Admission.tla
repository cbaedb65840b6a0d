----------------------------- MODULE Admission -----------------------------
(***************************************************************************)
(* The accept loop and the slots it hands out, composed with the watcher   *)
(* of controls.json (Controls): an address the controls in force ban gets  *)
(* no session, Connections::admit reserves a slot in the total and in the  *)
(* address's count, session::run enters the clients table after its hello, *)
(* and both are taken back by Drop guards when the session's task ends, by *)
(* whatever way: ClientRow inside run, ConnectionSlot after it.            *)
(*                                                                         *)
(* One accept loop, so admit is one step; sessions end on their own tasks. *)
(***************************************************************************)
EXTENDS Controls, FiniteSets

CONSTANTS
    Conns,     \* gateways that connect, leave and connect again
    Ips,
    IpOf,      \* the address each connects from
    BannedBy,  \* the addresses a valid controls.json bans
    MaxTotal,  \* cfg.max_connections
    MaxPerIp   \* cfg.max_connections_per_ip

ASSUME AdmissionAssumption ==
    /\ IsFiniteSet(Conns)
    /\ IpOf \in [Conns -> Ips]
    /\ BannedBy \in [Contents -> SUBSET Ips]
    /\ MaxTotal \in Nat \ {0}    \* config.rs refuses zero for both
    /\ MaxPerIp \in Nat \ {0}

VARIABLES
    stage,    \* where each gateway's connection stands
    total,    \* Connections::total
    per_ip,   \* Connections::per_ip, 0 where there is no entry
    entries,  \* the addresses per_ip has an entry for
    rows,     \* Shared::clients
    prime     \* is the listener up?

adm_vars == <<stage, total, per_ip, entries, rows, prime>>
all_vars == <<vars, adm_vars>>

Stages == {"away", "admitted", "served", "leaving"}

\* Connections whose ConnectionSlot is alive.
Live == {c \in Conns : stage[c] # "away"}

LiveFrom(ip) == {c \in Live : IpOf[c] = ip}

\* Controls::ip_banned of the controls in force (the defaults ban nobody).
IpBanned(ip) == in_force \in Contents /\ ip \in BannedBy[in_force]

\* run() starts: controls loaded once before the listener exists.
AdmInit ==
    /\ Init
    /\ stage = [c \in Conns |-> "away"]
    /\ total = 0
    /\ per_ip = [ip \in Ips |-> 0]
    /\ entries = {}
    /\ rows = {}
    /\ prime = "starting"

Listen ==
    /\ prime = "starting"
    /\ at = "idle"
    /\ prime' = "listening"
    /\ UNCHANGED <<vars, stage, total, per_ip, entries, rows>>

\* Mutant of Accept: the total is taken before the address is tested.
AcceptCountsFirst(c) ==
    /\ prime = "listening"
    /\ stage[c] = "away"
    /\ ~IpBanned(IpOf[c])
    /\ total < MaxTotal
    /\ entries' = entries \cup {IpOf[c]}
    /\ total' = total + 1
    /\ IF per_ip[IpOf[c]] >= MaxPerIp
       THEN UNCHANGED <<stage, per_ip>>
       ELSE /\ per_ip' = [per_ip EXCEPT ![IpOf[c]] = @ + 1]
            /\ stage' = [stage EXCEPT ![c] = "admitted"]
    /\ UNCHANGED <<vars, rows, prime>>

\* Mutant of Accept: the controls are not asked.
AcceptAnyone(c) ==
    /\ prime = "listening"
    /\ stage[c] = "away"
    /\ total < MaxTotal
    /\ entries' = entries \cup {IpOf[c]}
    /\ IF per_ip[IpOf[c]] >= MaxPerIp
       THEN UNCHANGED <<stage, total, per_ip>>
       ELSE /\ per_ip' = [per_ip EXCEPT ![IpOf[c]] = @ + 1]
            /\ total' = total + 1
            /\ stage' = [stage EXCEPT ![c] = "admitted"]
    /\ UNCHANGED <<vars, rows, prime>>

\* A gateway connects. A banned address and a full pool are turned away with
\* nothing changed; admit looks the address up (entering it) before it tests
\* the address's own limit.
Accept(c) ==
    /\ prime = "listening"
    /\ stage[c] = "away"
    /\ ~IpBanned(IpOf[c])
    /\ total < MaxTotal
    /\ entries' = entries \cup {IpOf[c]}
    /\ IF per_ip[IpOf[c]] >= MaxPerIp
       THEN UNCHANGED <<stage, total, per_ip>>
       ELSE /\ per_ip' = [per_ip EXCEPT ![IpOf[c]] = @ + 1]
            /\ total' = total + 1
            /\ stage' = [stage EXCEPT ![c] = "admitted"]
    /\ UNCHANGED <<vars, rows, prime>>

\* The hello is in and answered; the row is entered and its guard made.
Hello(c) ==
    /\ stage[c] = "admitted"
    /\ stage' = [stage EXCEPT ![c] = "served"]
    /\ rows' = rows \cup {c}
    /\ UNCHANGED <<vars, total, per_ip, entries, prime>>

\* session::run ends at any point: closed, refused, timed out or panicked.
\* ClientRow, if there is one, is dropped with it.
Leave(c) ==
    /\ stage[c] \in {"admitted", "served"}
    /\ stage' = [stage EXCEPT ![c] = "leaving"]
    /\ rows' = rows \ {c}
    /\ UNCHANGED <<vars, total, per_ip, entries, prime>>

\* saturating_sub(1)
Less(n) == IF n > 0 THEN n - 1 ELSE 0

\* ConnectionSlot is dropped: Connections::release.
GiveBack(c) ==
    /\ stage[c] = "leaving"
    /\ stage' = [stage EXCEPT ![c] = "away"]
    /\ per_ip' = IF IpOf[c] \in entries
                 THEN [per_ip EXCEPT ![IpOf[c]] = Less(@)]
                 ELSE per_ip
    /\ entries' = IF Less(per_ip[IpOf[c]]) = 0
                  THEN entries \ {IpOf[c]}
                  ELSE entries
    /\ total' = Less(total)
    /\ UNCHANGED <<vars, rows, prime>>

\* Prime stops and starts: everything here is memory.
StopStart ==
    /\ Restart
    /\ stage' = [c \in Conns |-> "away"]
    /\ total' = 0
    /\ per_ip' = [ip \in Ips |-> 0]
    /\ entries' = {}
    /\ rows' = {}
    /\ prime' = "starting"

WatcherStep == Watcher /\ UNCHANGED adm_vars

AdmNext ==
    \/ \E k \in Contents \cup {Bad, Absent} : Write(k) /\ UNCHANGED adm_vars
    \/ WatcherStep
    \/ Listen
    \/ \E c \in Conns : Accept(c) \/ Hello(c) \/ Leave(c) \/ GiveBack(c)
    \/ StopStart

\* The watcher's task and the start-up run on; a task that ended drops its
\* slot. Gateways connect and leave as they please.
AdmSpec ==
    /\ AdmInit /\ [][AdmNext]_all_vars
    /\ WF_all_vars(WatcherStep)
    /\ \A c \in Conns : WF_all_vars(GiveBack(c))

-----------------------------------------------------------------------------
(* Properties *)

AdmTypeOK ==
    /\ stage \in [Conns -> Stages]
    /\ total \in Nat
    /\ per_ip \in [Ips -> Nat]
    /\ entries \subseteq Ips
    /\ rows \subseteq Conns
    /\ prime \in {"starting", "listening"}

\* The counts are the sessions alive, in total and by address, through every
\* refusal, ending and reconnect: so the limits bound the sessions ("the
\* count of them is the memory bound": main.rs), no slot leaks, and the table
\* has an entry only for addresses connected. The clients table lists exactly
\* the sessions past their hello ("cannot keep a row for a session that
\* panicked": session.rs).
SlotsAreSessions ==
    /\ total = Cardinality(Live)
    /\ \A ip \in Ips : per_ip[ip] = Cardinality(LiveFrom(ip))
    /\ entries = {IpOf[c] : c \in Live}
    /\ Cardinality(Live) <= MaxTotal
    /\ \A ip \in Ips : Cardinality(LiveFrom(ip)) <= MaxPerIp
    /\ rows = {c \in Conns : stage[c] = "served"}

\* A ban the control plane leaves in place keeps its addresses out in the
\* end, through half-written files, texts that change under the watcher and
\* restarts: from some time on no session starts from them.
BanTakesEffect ==
    \A k \in Contents :
        <>[](Current = k) =>
        <>[][\A c \in Conns : IpOf[c] \in BannedBy[k] =>
                ~(stage[c] = "away" /\ stage'[c] = "admitted")]_all_vars
=============================================================================
