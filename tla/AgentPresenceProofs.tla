------------------------ MODULE AgentPresenceProofs ------------------------
(***************************************************************************)
(* The invariants of AgentPresence hold for any number of connections,     *)
(* polling sessions, refreshes and switches of the notifications.           *)
(*                                                                         *)
(* The registry needs no strengthening.  A polling session needs that the   *)
(* callbacks in flight belong to sessions that exist or existed, never to a *)
(* later generation (SessionInv).  The notices need that every id is lost   *)
(* at most once (OnceLost), and that a client without a counted connection  *)
(* is one whose current id was reported (NoticeInv).  Losses and returns    *)
(* are then counted step by step (Alternating).                             *)
(***************************************************************************)
EXTENDS AgentPresence, FiniteSetTheorems, TLAPS

\* A session that has not begun left nothing behind; the entry is not being
\* cleared; no callback is of a later generation than the entry, and one of
\* its generation means that the session has lapsed.
SessionInv ==
  /\ \A s \in Sessions : online[s] = "none" => s # entry /\ s \notin clearing
  /\ entry \notin clearing
  /\ \A f \in fired : online[f[1]] # "none"
  /\ \A f \in fired : f[1] = entry => f[2] =< generation
  /\ <<entry, generation>> \in fired => ~fresh
  /\ armed => entry # None

\* OnlineNotification has not been called for a connection that is not marked,
\* OfflineNotification neither for a connection that lives nor for a session that
\* is not over.
OnceLost ==
  /\ \A c \in Conns : conn[c] \in {"new", "accepted", "registered"} => online[c] = "none"
  /\ \A c \in Conns : conn[c] # "left" => offline[c] = "none"
  /\ \A s \in Sessions :
       online[s] = "none" \/ s = entry \/ s \in clearing => offline[s] = "none"

\* The state of the notices.
NoticeInv ==
  /\ first <=> current = None
  /\ first => ~pending /\ ~exist
  /\ pending => exist
  /\ ~first /\ ~exist => offline[current] = "told"

NoticeParts == NoticeInv /\ PendingHasWaiter

Alternating == IsFiniteSet(Losses) /\ IsFiniteSet(Returns) /\ NoticesAlternate

IInv == /\ TypeOK /\ LatestServed /\ PolledIsShown /\ SessionInv /\ OnceLost /\ NoticeParts
        /\ Alternating

-----------------------------------------------------------------------------
LEMMA InitIInv == Init => IInv
<1> SUFFICES ASSUME Init PROVE IInv
  OBVIOUS
<1> USE PresenceAssumption DEF PresenceAssumption, Init, Ids
<1>1. TypeOK
  <2>1. conn \in [Conns -> {"new", "accepted", "registered", "serving", "left"}]
    OBVIOUS
  <2>2. online \in [Ids -> {"none", "due", "checked", "silent", "announcing", "announced", "muted"}]
    OBVIOUS
  <2>3. offline \in [Ids -> {"none", "due", "checked", "skipped", "over", "waiting", "told"}]
    OBVIOUS
  <2>4. toggles \in 0..MaxToggles /\ generation \in 0..MaxRefresh
    OBVIOUS
  <2>5. fired \subseteq Sessions \X (0..MaxRefresh) /\ clearing \subseteq Sessions
    OBVIOUS
  <2> QED
    BY <2>1, <2>2, <2>3, <2>4, <2>5 DEF TypeOK
<1>2. LatestServed /\ PolledIsShown
  BY DEF LatestServed, PolledIsShown
<1>3. SessionInv
  BY DEF SessionInv
<1>4. OnceLost
  BY DEF OnceLost
<1>5. NoticeInv /\ PendingHasWaiter
  BY DEF NoticeInv, PendingHasWaiter
<1>6. Alternating
  <2>1. Losses = {} /\ Returns = {} /\ first
    BY DEF Losses, Returns
  <2>2. IsFiniteSet({}) /\ Cardinality({}) = 0
    BY FS_EmptySet
  <2> QED
    BY <2>1, <2>2 DEF Alternating, NoticesAlternate
<1> QED
  BY <1>1, <1>2, <1>3, <1>4, <1>5, <1>6 DEF IInv, NoticeParts

-----------------------------------------------------------------------------
(* One lemma for each part of the invariant. *)

LEMMA LatestServedStep ==
  ASSUME TypeOK, LatestServed, [Next]_vars
  PROVE  LatestServed'
<1> USE PresenceAssumption DEF PresenceAssumption, Ids
<1>1. ASSUME NEW c \in Conns, Accept(c) PROVE LatestServed'
  BY <1>1 DEF Accept, LatestServed, TypeOK, registry
<1>2. ASSUME NEW c \in Conns, Register(c) PROVE LatestServed'
  BY <1>2 DEF Register, LatestServed, TypeOK
<1>3. ASSUME NEW c \in Conns, Mark(c) PROVE LatestServed'
  BY <1>3 DEF Mark, LatestServed, TypeOK
<1>4. ASSUME NEW c \in Conns, Leave(c) PROVE LatestServed'
  BY <1>4 DEF Leave, LatestServed, TypeOK
<1>5. ASSUME RefreshPostPresence PROVE LatestServed'
  BY <1>5 DEF RefreshPostPresence, registry, LatestServed
<1>6. ASSUME DeleteConnected PROVE LatestServed'
  BY <1>6 DEF DeleteConnected, LatestServed
<1>7. ASSUME UNCHANGED <<registry, marked>> PROVE LatestServed'
  BY <1>7 DEF registry, LatestServed
<1>8. ASSUME Expiry PROVE UNCHANGED <<registry, marked>>
  BY <1>8 DEF Expiry, Lapse, TimerFires, RemoveEntry, ClearPresence
<1>9. ASSUME NEW i \in Ids, Notify(i) PROVE UNCHANGED <<registry, marked>>
  BY <1>9 DEF Notify, OnlineChecks, UpdateOnlineState, AnnounceReturn, OfflineChecks, MarkPending, GraceEnds
<1>10. QED
  BY <1>1, <1>2, <1>3, <1>4, <1>5, <1>6, <1>7, <1>8, <1>9
  DEF Next, Socket, Poll, ReportOverSocket, Admin, Toggle, DeleteRow, vars

LEMMA PolledIsShownStep ==
  ASSUME TypeOK, SessionInv, PolledIsShown, [Next]_vars
  PROVE  PolledIsShown'
<1> USE PresenceAssumption DEF PresenceAssumption, Ids
<1>1. ASSUME RefreshPostPresence PROVE PolledIsShown'
  BY <1>1 DEF RefreshPostPresence, Prolong, Begin, PolledIsShown
<1>2. ASSUME NEW f \in fired, RemoveEntry(f[1], f[2]) PROVE PolledIsShown'
  <2>1. f = <<f[1], f[2]>>
    BY DEF TypeOK
  <2>2. CASE entry = f[1] /\ generation = f[2]
    BY <1>2, <2>1, <2>2 DEF RemoveEntry, SessionInv, PolledIsShown
  <2>3. CASE ~(entry = f[1] /\ generation = f[2])
    BY <1>2, <2>3 DEF RemoveEntry, PolledIsShown
  <2> QED
    BY <2>2, <2>3
<1>3. ASSUME NEW s \in Sessions, ClearPresence(s) PROVE PolledIsShown'
  BY <1>3 DEF ClearPresence, SessionInv, PolledIsShown
<1>4. ASSUME Lapse \/ TimerFires PROVE PolledIsShown'
  BY <1>4 DEF Lapse, TimerFires, PolledIsShown
<1>5. ASSUME UNCHANGED session PROVE PolledIsShown'
  BY <1>5 DEF session, PolledIsShown
<1>6. ASSUME NEW i \in Ids, Notify(i) PROVE UNCHANGED session
  BY <1>6 DEF Notify, OnlineChecks, UpdateOnlineState, AnnounceReturn, OfflineChecks, MarkPending, GraceEnds
<1>7. ASSUME NEW c \in Conns, Socket(c) PROVE UNCHANGED session
  BY <1>7 DEF Socket, Accept, Register, Mark, Leave
<1>8. ASSUME Admin PROVE UNCHANGED session
  BY <1>8 DEF Admin, Toggle, DeleteRow, DeleteConnected
<1> QED
  BY <1>1, <1>2, <1>3, <1>4, <1>5, <1>6, <1>7, <1>8
  DEF Next, Poll, ReportOverSocket, Expiry, vars

LEMMA TypeOKStep ==
  ASSUME TypeOK, NoticeInv, PendingHasWaiter, SessionInv, [Next]_vars
  PROVE  TypeOK'
<1> USE PresenceAssumption DEF PresenceAssumption, Ids
<1> DEFINE Handler == {"new", "accepted", "registered", "serving", "left"}
           Online  == {"none", "due", "checked", "silent", "announcing", "announced", "muted"}
           Offline == {"none", "due", "checked", "skipped", "over", "waiting", "told"}
<1>1. ASSUME NEW c \in Conns, Socket(c) PROVE TypeOK'
  <2>1. conn' \in [Conns -> Handler] /\ online' \in [Ids -> Online]
        /\ offline' \in [Ids -> Offline]
    BY <1>1 DEF Socket, Accept, Register, Mark, Leave, TypeOK
  <2>2. /\ registered' \in Conns \cup {None} /\ latest' \in Conns \cup {None}
        /\ marked' \in BOOLEAN /\ UNCHANGED <<settings, session, notice>>
    BY <1>1 DEF Socket, Accept, Register, Mark, Leave, TypeOK
  <2> QED
    BY <2>1, <2>2 DEF TypeOK, settings, session, notice
<1>2. ASSUME RefreshPostPresence PROVE TypeOK'
  <2>1. online' \in [Ids -> Online]
    BY <1>2 DEF RefreshPostPresence, Prolong, Begin, TypeOK
  <2>2. /\ entry' \in Sessions \cup {None} /\ presence' \in Sessions \cup {None}
        /\ generation' \in 0..MaxRefresh
    BY <1>2 DEF RefreshPostPresence, Prolong, Begin, TypeOK
  <2> QED
    BY <1>2, <2>1, <2>2 DEF RefreshPostPresence, TypeOK, settings, registry, notice
<1>3. ASSUME Lapse \/ TimerFires PROVE TypeOK'
  <2>1. fired' \subseteq Sessions \X (0..MaxRefresh)
    BY <1>3 DEF Lapse, TimerFires, SessionInv, TypeOK
  <2>2. armed' \in BOOLEAN /\ fresh' \in BOOLEAN
    BY <1>3 DEF Lapse, TimerFires, TypeOK
  <2> QED
    BY <1>3, <2>1, <2>2 DEF Lapse, TimerFires, TypeOK, settings, registry, notice
<1>4. ASSUME NEW f \in fired, RemoveEntry(f[1], f[2]) PROVE TypeOK'
  <2>1. f[1] \in Sessions
    BY DEF TypeOK
  <2>2. /\ fired' \subseteq fired
        /\ \/ entry' = None /\ clearing' = clearing \cup {f[1]} /\ armed' = FALSE
           \/ UNCHANGED <<entry, clearing, armed>>
    BY <1>4 DEF RemoveEntry
  <2>3. /\ fired \subseteq Sessions \X (0..MaxRefresh) /\ clearing \subseteq Sessions
        /\ entry \in Sessions \cup {None} /\ armed \in BOOLEAN
    BY DEF TypeOK
  <2>4. fired' \subseteq Sessions \X (0..MaxRefresh)
    BY <2>2, <2>3, Zenon
  <2>5. clearing' \subseteq Sessions /\ entry' \in Sessions \cup {None} /\ armed' \in BOOLEAN
    BY ONLY <2>1, <2>2, <2>3
  <2> QED
    BY <1>4, <2>4, <2>5 DEF RemoveEntry, TypeOK, settings, registry, notice
<1>5. ASSUME NEW s \in Sessions, ClearPresence(s) PROVE TypeOK'
  <2>1. offline' \in [Ids -> Offline]
    BY <1>5 DEF ClearPresence, TypeOK
  <2>2. clearing' \subseteq Sessions /\ presence' \in Sessions \cup {None}
    BY <1>5 DEF ClearPresence, TypeOK
  <2> QED
    BY <1>5, <2>1, <2>2 DEF ClearPresence, TypeOK, settings, registry, notice
<1>6. ASSUME NEW i \in Ids, OnlineChecks(i) \/ AnnounceReturn(i) \/ OfflineChecks(i) PROVE TypeOK'
  <2>1. online' \in [Ids -> Online] /\ offline' \in [Ids -> Offline]
    BY <1>6 DEF OnlineChecks, AnnounceReturn, OfflineChecks, TypeOK
  <2>2. UNCHANGED <<settings, registry, marked, session, notice>>
    BY <1>6 DEF OnlineChecks, AnnounceReturn, OfflineChecks
  <2> QED
    BY <2>1, <2>2 DEF TypeOK, settings, registry, session, notice
<1>7. ASSUME NEW i \in Ids, UpdateOnlineState(i) PROVE TypeOK'
  <2>2. online' \in [Ids -> Online]
    BY <1>7 DEF UpdateOnlineState, TypeOK
  <2>3. current' \in Ids \cup {None} /\ first' \in BOOLEAN /\ pending' \in BOOLEAN
        /\ exist' \in BOOLEAN
    BY <1>7 DEF UpdateOnlineState, TypeOK
  <2> QED
    BY <1>7, <2>2, <2>3 DEF UpdateOnlineState, TypeOK, settings, registry, session
<1>8. ASSUME NEW i \in Ids, MarkPending(i) PROVE TypeOK'
  <2>1. offline' \in [Ids -> Offline]
    BY <1>8 DEF MarkPending, TypeOK
  <2>2. pending' \in BOOLEAN
    BY <1>8 DEF MarkPending, TypeOK
  <2> QED
    BY <1>8, <2>1, <2>2 DEF MarkPending, TypeOK, settings, registry, session
<1>9. ASSUME NEW i \in Ids, GraceEnds(i) PROVE TypeOK'
  <2>2. offline' \in [Ids -> Offline]
    BY <1>9 DEF GraceEnds, TypeOK
  <2>3. pending' \in BOOLEAN /\ exist' \in BOOLEAN
    BY <1>9 DEF GraceEnds, TypeOK
  <2> QED
    BY <1>9, <2>2, <2>3 DEF GraceEnds, TypeOK, settings, registry, session
<1>10. ASSUME Admin PROVE TypeOK'
  <2>1. client' \in {"known", "deleted", "forgotten"} /\ toggles' \in 0..MaxToggles
    BY <1>10, SMT DEF Admin, Toggle, DeleteRow, DeleteConnected, TypeOK
  <2>4. enabled' \in BOOLEAN
    BY <1>10, Zenon DEF Admin, Toggle, DeleteRow, DeleteConnected, TypeOK
  <2>2. /\ registered' \in Conns \cup {None} /\ latest' \in Conns \cup {None}
        /\ marked' \in BOOLEAN
    BY <1>10 DEF Admin, Toggle, DeleteRow, DeleteConnected, TypeOK, registry
  <2>3. UNCHANGED <<conn, session, notice, online, offline>>
    BY <1>10 DEF Admin, Toggle, DeleteRow, DeleteConnected, registry
  <2> QED
    BY <2>1, <2>2, <2>3, <2>4 DEF TypeOK, session, notice
<1>11. ASSUME UNCHANGED vars PROVE TypeOK'
  BY <1>11 DEF vars, settings, registry, session, notice, TypeOK
<1> QED
  BY <1>1, <1>2, <1>3, <1>4, <1>5, <1>6, <1>7, <1>8, <1>9, <1>10, <1>11
  DEF Next, Poll, ReportOverSocket, Expiry, Notify

LEMMA SessionInvStep ==
  ASSUME TypeOK, SessionInv, [Next]_vars
  PROVE  SessionInv'
<1> USE PresenceAssumption DEF PresenceAssumption, Ids
<1>1. ASSUME Prolong, RefreshPostPresence PROVE SessionInv'
  <2>1. \A f \in fired : f[1] = entry => f[2] # generation + 1
    BY DEF SessionInv, TypeOK
  <2>2. <<entry, generation + 1>> \notin fired
    BY <2>1
  <2> QED
    BY <1>1, <2>2 DEF Prolong, RefreshPostPresence, SessionInv, TypeOK
<1>2. ASSUME NEW s \in Sessions, Begin(s), RefreshPostPresence PROVE SessionInv'
  <2>1. \A f \in fired : f[1] # s
    BY <1>2 DEF Begin, SessionInv
  <2>2. <<s, 0>> \notin fired
    BY <2>1
  <2>3. s \notin clearing /\ s \in Ids /\ s # None
    BY <1>2 DEF Begin, SessionInv
  <2>4. online'[s] = "due" /\ \A i \in Ids \ {s} : online'[i] = online[i]
    BY <1>2, <2>3 DEF Begin, TypeOK
  <2>5. \A f \in fired : f[1] \in Ids
    BY DEF TypeOK
  <2>6. entry' = s /\ generation' = 0 /\ fired' = fired /\ clearing' = clearing /\ entry = None
    BY <1>2 DEF Begin, RefreshPostPresence
  <2>7. \A t \in Sessions : online'[t] = "none" => t # entry' /\ t \notin clearing'
    BY <2>4, <2>6 DEF SessionInv
  <2>8. \A f \in fired' : online'[f[1]] # "none"
    BY <2>1, <2>4, <2>5, <2>6 DEF SessionInv
  <2> QED
    BY <2>1, <2>2, <2>3, <2>6, <2>7, <2>8 DEF SessionInv
<1>3. ASSUME Lapse PROVE SessionInv'
  BY <1>3 DEF Lapse, SessionInv
<1>4. ASSUME TimerFires PROVE SessionInv'
  <2>1. entry \in Sessions
    BY <1>4 DEF TimerFires, SessionInv, TypeOK
  <2>2. online[entry] # "none"
    BY <2>1 DEF SessionInv
  <2> QED
    BY <1>4, <2>1, <2>2 DEF TimerFires, SessionInv, TypeOK
<1>5. ASSUME NEW f \in fired, RemoveEntry(f[1], f[2]) PROVE SessionInv'
  <2>1. f[1] \in Sessions /\ online[f[1]] # "none"
    BY DEF TypeOK, SessionInv
  <2> QED
    BY <1>5, <2>1 DEF RemoveEntry, SessionInv, TypeOK
<1>6. ASSUME NEW s \in Sessions, ClearPresence(s) PROVE SessionInv'
  BY <1>6 DEF ClearPresence, SessionInv
<1>7. ASSUME NEW i \in Ids, OnlineChecks(i) \/ UpdateOnlineState(i) \/ AnnounceReturn(i)
      PROVE  SessionInv'
  <2>1. online[i] # "none" /\ UNCHANGED session
        /\ \E v \in {"checked", "silent", "announcing", "announced", "muted"} :
             online' = [online EXCEPT ![i] = v]
    BY <1>7 DEF OnlineChecks, UpdateOnlineState, AnnounceReturn
  <2>2. \A j \in Ids : online'[j] = "none" <=> online[j] = "none"
    BY <2>1 DEF TypeOK
  <2>3. \A f \in fired : f[1] \in Ids
    BY DEF TypeOK
  <2> QED
    BY <2>1, <2>2, <2>3 DEF SessionInv, session
<1>8. ASSUME NEW c \in Conns, Mark(c) PROVE SessionInv'
  <2>1. UNCHANGED session /\ \A j \in Ids \ {c} : online'[j] = online[j]
    BY <1>8 DEF Mark, TypeOK
  <2>2. \A f \in fired : f[1] \in Ids \ {c}
    BY DEF TypeOK
  <2> QED
    BY <2>1, <2>2 DEF SessionInv, session
<1>9. ASSUME UNCHANGED <<session, online>> PROVE SessionInv'
  BY <1>9 DEF session, SessionInv
<1>10. ASSUME NEW c \in Conns, Accept(c) \/ Register(c) \/ Leave(c)
       PROVE  UNCHANGED <<session, online>>
  BY <1>10 DEF Accept, Register, Leave
<1>11. ASSUME NEW i \in Ids, OfflineChecks(i) \/ MarkPending(i) \/ GraceEnds(i)
       PROVE  UNCHANGED <<session, online>>
  BY <1>11 DEF OfflineChecks, MarkPending, GraceEnds
<1>12. ASSUME Admin PROVE UNCHANGED <<session, online>>
  BY <1>12 DEF Admin, Toggle, DeleteRow, DeleteConnected
<1>13. ASSUME RefreshPostPresence PROVE SessionInv'
  BY <1>1, <1>2, <1>13 DEF RefreshPostPresence
<1> QED
  BY <1>3, <1>4, <1>5, <1>6, <1>7, <1>8, <1>9, <1>10, <1>11, <1>12, <1>13
  DEF Next, Poll, ReportOverSocket, Expiry, Socket, Notify, vars

LEMMA OnceLostStep ==
  ASSUME TypeOK, SessionInv, OnceLost, [Next]_vars
  PROVE  OnceLost'
<1> USE PresenceAssumption DEF PresenceAssumption, Ids
<1>1. ASSUME NEW c \in Conns, Accept(c) \/ Register(c) \/ Mark(c) PROVE OnceLost'
  <2>1. \A d \in Conns : conn[d] = "left" <=> conn'[d] = "left"
    BY <1>1 DEF Accept, Register, Mark, TypeOK
  <2>4. \A d \in Conns : conn'[d] \in {"new", "accepted", "registered"} =>
          conn[d] \in {"new", "accepted", "registered"} /\ online'[d] = online[d]
    BY <1>1 DEF Accept, Register, Mark, TypeOK
  <2>2. \A s \in Sessions : online'[s] = online[s]
    BY <1>1 DEF Accept, Register, Mark, TypeOK
  <2>3. UNCHANGED <<session, offline>>
    BY <1>1 DEF Accept, Register, Mark
  <2> QED
    BY <2>1, <2>2, <2>3, <2>4 DEF OnceLost, session
<1>2. ASSUME NEW c \in Conns, Leave(c) PROVE OnceLost'
  <2>1. \A d \in Conns : conn'[d] # "left" => conn'[d] = conn[d] /\ offline'[d] = offline[d]
    BY <1>2 DEF Leave, TypeOK
  <2>2. \A s \in Sessions : offline'[s] = offline[s]
    BY <1>2 DEF Leave, TypeOK
  <2>3. UNCHANGED <<session, online>>
    BY <1>2 DEF Leave
  <2> QED
    BY <2>1, <2>2, <2>3 DEF OnceLost, session
<1>3. ASSUME RefreshPostPresence PROVE OnceLost'
  <2>1. CASE Prolong
    BY <1>3, <2>1 DEF RefreshPostPresence, Prolong, OnceLost, registry
  <2>2. ASSUME NEW s \in Sessions, Begin(s) PROVE OnceLost'
    <3>1. \A t \in Sessions : online'[t] = "none" => online[t] = "none"
      BY <2>2 DEF Begin, TypeOK
    <3>2. entry' = s /\ online[s] = "none"
      BY <2>2 DEF Begin
    <3>3. UNCHANGED <<registry, clearing, offline>>
      BY <1>3 DEF RefreshPostPresence
    <3>4. \A c \in Conns : online'[c] = online[c]
      BY <2>2 DEF Begin, TypeOK
    <3> QED
      BY <3>1, <3>2, <3>3, <3>4 DEF OnceLost, registry
  <2> QED
    BY <1>3, <2>1, <2>2 DEF RefreshPostPresence
<1>4. ASSUME Lapse \/ TimerFires PROVE OnceLost'
  BY <1>4 DEF Lapse, TimerFires, OnceLost, registry
<1>5. ASSUME NEW f \in fired, RemoveEntry(f[1], f[2]) PROVE OnceLost'
  <2>1. f[1] \in Sessions
    BY DEF TypeOK
  <2>2. \A s \in Sessions : s = entry' \/ s \in clearing' => s = entry \/ s \in clearing
    BY <1>5, <2>1 DEF RemoveEntry
  <2>3. UNCHANGED <<registry, online, offline>>
    BY <1>5 DEF RemoveEntry
  <2> QED
    BY <2>2, <2>3 DEF OnceLost, registry
<1>6. ASSUME NEW s \in Sessions, ClearPresence(s) PROVE OnceLost'
  <2>1. \A t \in Ids \ {s} : offline'[t] = offline[t]
    BY <1>6 DEF ClearPresence, TypeOK
  <2>2. online[s] # "none" /\ s # entry
    BY <1>6 DEF ClearPresence, SessionInv
  <2>3. UNCHANGED <<registry, entry, online>> /\ clearing' = clearing \ {s}
    BY <1>6 DEF ClearPresence
  <2> QED
    BY <2>1, <2>2, <2>3 DEF OnceLost, registry
<1>7. ASSUME NEW i \in Ids, OnlineChecks(i) \/ UpdateOnlineState(i) \/ AnnounceReturn(i)
      PROVE  OnceLost'
  <2>1. \A j \in Ids : online'[j] = "none" <=> online[j] = "none"
    BY <1>7 DEF OnlineChecks, UpdateOnlineState, AnnounceReturn, TypeOK
  <2>2. UNCHANGED <<registry, session, offline>>
    BY <1>7 DEF OnlineChecks, UpdateOnlineState, AnnounceReturn
  <2> QED
    BY <2>1, <2>2 DEF OnceLost, registry, session
<1>8. ASSUME NEW i \in Ids, OfflineChecks(i) \/ MarkPending(i) \/ GraceEnds(i) PROVE OnceLost'
  <2>1. \A j \in Ids : offline[j] = "none" => offline'[j] = "none"
    BY <1>8 DEF OfflineChecks, MarkPending, GraceEnds, TypeOK
  <2>2. UNCHANGED <<registry, session, online>>
    BY <1>8 DEF OfflineChecks, MarkPending, GraceEnds
  <2> QED
    BY <2>1, <2>2 DEF OnceLost, registry, session
<1>9. ASSUME Admin PROVE OnceLost'
  BY <1>9 DEF Admin, Toggle, DeleteRow, DeleteConnected, OnceLost, registry, session
<1>10. ASSUME UNCHANGED vars PROVE OnceLost'
  BY <1>10 DEF vars, OnceLost, registry, session
<1> QED
  BY <1>1, <1>2, <1>3, <1>4, <1>5, <1>6, <1>7, <1>8, <1>9, <1>10
  DEF Next, Poll, ReportOverSocket, Expiry, Socket, Notify

LEMMA NoticeStep ==
  ASSUME TypeOK, OnceLost, SessionInv, NoticeParts, [Next]_vars
  PROVE  NoticeParts'
<1> USE PresenceAssumption DEF PresenceAssumption, Ids, NoticeParts
<1> DEFINE Keeps(i) == offline[i] # "none" => offline'[i] = offline[i]
<1>1. ASSUME UNCHANGED notice, \A i \in Ids : Keeps(i) PROVE NoticeParts'
  <2>1. current # None => current \in Ids
    BY DEF TypeOK
  <2>2. pending => offline'[current] = "waiting"
    BY <1>1, <2>1 DEF PendingHasWaiter
  <2>3. ~first /\ ~exist => offline'[current] = "told"
    BY <1>1, <2>1 DEF NoticeInv
  <2> QED
    BY <1>1, <2>2, <2>3 DEF notice, NoticeInv, PendingHasWaiter
<1>2. ASSUME NEW c \in Conns, Leave(c) PROVE NoticeParts'
  <2>1. \A i \in Ids : Keeps(i)
    BY <1>2 DEF Leave, OnceLost, TypeOK
  <2> QED
    BY <1>1, <1>2, <2>1 DEF Leave
<1>3. ASSUME NEW s \in Sessions, ClearPresence(s) PROVE NoticeParts'
  <2>1. \A i \in Ids : Keeps(i)
    BY <1>3 DEF ClearPresence, OnceLost, TypeOK
  <2> QED
    BY <1>1, <1>3, <2>1 DEF ClearPresence
<1>4. ASSUME NEW i \in Ids, UpdateOnlineState(i) PROVE NoticeParts'
  BY <1>4 DEF UpdateOnlineState, NoticeInv, PendingHasWaiter, TypeOK
<1>5. ASSUME NEW i \in Ids, OfflineChecks(i) PROVE NoticeParts'
  <2>1. i # current \/ (~pending /\ (first \/ exist))
    BY <1>5 DEF OfflineChecks, PendingHasWaiter, NoticeInv
  <2>2. current # None /\ i # current => offline'[current] = offline[current]
    BY <1>5 DEF OfflineChecks, TypeOK
  <2>3. UNCHANGED notice
    BY <1>5 DEF OfflineChecks
  <2> QED
    BY <2>1, <2>2, <2>3 DEF notice, NoticeInv, PendingHasWaiter
<1>6. ASSUME NEW i \in Ids, MarkPending(i) PROVE NoticeParts'
  <2>1. current # None /\ i # current => offline'[current] = offline[current]
    BY <1>6 DEF MarkPending, TypeOK
  <2>2. UNCHANGED <<current, first, exist>>
    BY <1>6 DEF MarkPending
  <2>3. CASE ~pending /\ current = i
    <3>1. ~first /\ exist
      BY <1>6, <2>3 DEF MarkPending, NoticeInv
    <3>2. pending' /\ offline'[i] = "waiting"
      BY <1>6, <2>3 DEF MarkPending, TypeOK
    <3> QED
      BY <2>2, <2>3, <3>1, <3>2 DEF NoticeInv, PendingHasWaiter
  <2>4. CASE ~(~pending /\ current = i)
    <3>1. i # current
      BY <1>6, <2>4 DEF MarkPending, PendingHasWaiter
    <3>2. UNCHANGED pending
      BY <1>6, <2>4 DEF MarkPending
    <3> QED
      BY <2>1, <2>2, <3>1, <3>2 DEF NoticeInv, PendingHasWaiter
  <2> QED
    BY <2>3, <2>4
<1>7. ASSUME NEW i \in Ids, GraceEnds(i) PROVE NoticeParts'
  <2>1. current # None /\ i # current => offline'[current] = offline[current]
    BY <1>7 DEF GraceEnds, TypeOK
  <2>2. UNCHANGED <<current, first>>
    BY <1>7 DEF GraceEnds
  <2>3. CASE pending /\ current = i
    <3>1. ~first /\ exist
      BY <2>3 DEF NoticeInv
    <3>2. ~pending' /\ ~exist' /\ offline'[i] = "told"
      BY <1>7, <2>3, <3>1 DEF GraceEnds, TypeOK
    <3> QED
      BY <2>2, <2>3, <3>1, <3>2 DEF NoticeInv, PendingHasWaiter
  <2>4. CASE ~(pending /\ current = i)
    <3>1. UNCHANGED <<pending, exist>>
      BY <1>7, <2>4 DEF GraceEnds
    <3>2. i = current => ~pending /\ (first \/ exist)
      BY <1>7, <2>4 DEF GraceEnds, NoticeInv
    <3> QED
      BY <2>1, <2>2, <3>1, <3>2 DEF NoticeInv, PendingHasWaiter
  <2> QED
    BY <2>3, <2>4
<1>8. ASSUME UNCHANGED <<notice, offline>> PROVE NoticeParts'
  BY <1>1, <1>8
<1>9. ASSUME NEW c \in Conns, Accept(c) \/ Register(c) \/ Mark(c)
      PROVE  UNCHANGED <<notice, offline>>
  BY <1>9 DEF Accept, Register, Mark
<1>10. ASSUME RefreshPostPresence \/ Lapse \/ TimerFires PROVE UNCHANGED <<notice, offline>>
  BY <1>10 DEF RefreshPostPresence, Lapse, TimerFires
<1>11. ASSUME NEW f \in fired, RemoveEntry(f[1], f[2]) PROVE UNCHANGED <<notice, offline>>
  BY <1>11 DEF RemoveEntry
<1>12. ASSUME NEW i \in Ids, OnlineChecks(i) \/ AnnounceReturn(i)
       PROVE  UNCHANGED <<notice, offline>>
  BY <1>12 DEF OnlineChecks, AnnounceReturn
<1>13. ASSUME Admin PROVE UNCHANGED <<notice, offline>>
  BY <1>13 DEF Admin, Toggle, DeleteRow, DeleteConnected
<1>14. ASSUME UNCHANGED vars PROVE UNCHANGED <<notice, offline>>
  BY <1>14 DEF vars
<1> HIDE DEF NoticeParts
<1> QED
  BY <1>2, <1>3, <1>4, <1>5, <1>6, <1>7, <1>8, <1>9, <1>10, <1>11, <1>12, <1>13, <1>14
  DEF Next, Poll, ReportOverSocket, Expiry, Socket, Notify

\* Every loss but the present one has its return.
LEMMA AlternatingStep ==
  ASSUME TypeOK, SessionInv, OnceLost, NoticeParts, Alternating, [Next]_vars
  PROVE  Alternating'
<1> USE PresenceAssumption DEF PresenceAssumption, Ids
<1> DEFINE Told(v) == v = "told"
           Back(v) == v \in {"announcing", "announced", "muted"}
<1>1. ASSUME \A i \in Ids : (Told(offline'[i]) <=> Told(offline[i]))
                              /\ (Back(online'[i]) <=> Back(online[i])),
             (first \/ exist) <=> (first' \/ exist')
      PROVE  Alternating'
  <2>1. Losses' = Losses /\ Returns' = Returns
    BY <1>1 DEF Losses, Returns
  <2> QED
    BY <1>1, <2>1 DEF Alternating, NoticesAlternate
<1>2. ASSUME UNCHANGED <<first, exist, online, offline>> PROVE Alternating'
  BY <1>1, <1>2
<1>3. ASSUME NEW c \in Conns, Socket(c) PROVE Alternating'
  <2>1. UNCHANGED <<first, exist>>
    BY <1>3 DEF Socket, Accept, Register, Mark, Leave, notice
  <2>2. \A i \in Ids : Told(offline'[i]) <=> Told(offline[i])
    BY <1>3 DEF Socket, Accept, Register, Mark, Leave, OnceLost, TypeOK
  <2>3. \A i \in Ids : Back(online'[i]) <=> Back(online[i])
    BY <1>3 DEF Socket, Accept, Register, Mark, Leave, OnceLost, TypeOK
  <2> QED
    BY <1>1, <2>1, <2>2, <2>3
<1>4. ASSUME RefreshPostPresence PROVE Alternating'
  <2>1. UNCHANGED <<first, exist, offline>>
    BY <1>4 DEF RefreshPostPresence, notice
  <2>2. \A i \in Ids : Back(online'[i]) <=> Back(online[i])
    BY <1>4 DEF RefreshPostPresence, Prolong, Begin, TypeOK
  <2> QED
    BY <1>1, <2>1, <2>2
<1>5. ASSUME NEW s \in Sessions, ClearPresence(s) PROVE Alternating'
  <2>1. UNCHANGED <<first, exist, online>>
    BY <1>5 DEF ClearPresence, notice
  <2>2. \A i \in Ids : Told(offline'[i]) <=> Told(offline[i])
    BY <1>5 DEF ClearPresence, OnceLost, TypeOK
  <2> QED
    BY <1>1, <2>1, <2>2
<1>6. ASSUME NEW i \in Ids, OnlineChecks(i) \/ AnnounceReturn(i) PROVE Alternating'
  <2>1. UNCHANGED <<first, exist, offline>>
    BY <1>6 DEF OnlineChecks, AnnounceReturn, notice
  <2>2. \A j \in Ids : Back(online'[j]) <=> Back(online[j])
    BY <1>6 DEF OnlineChecks, AnnounceReturn, TypeOK
  <2> QED
    BY <1>1, <2>1, <2>2
<1>7. ASSUME NEW i \in Ids, UpdateOnlineState(i) PROVE Alternating'
  <2>1. /\ online[i] = "checked" /\ offline' = offline /\ ~first'
        /\ exist' = IF first \/ ~pending THEN TRUE ELSE exist
        /\ online' = [online EXCEPT ![i] =
                        IF first \/ pending \/ exist THEN "silent" ELSE "announcing"]
    BY <1>7 DEF UpdateOnlineState
  <2>2. pending => exist
    BY DEF NoticeParts, NoticeInv
  <2>3. exist' = TRUE \/ (pending /\ exist' = exist)
    BY <2>1
  <2>4. first' \/ exist'
    BY <2>2, <2>3
  <2>5. CASE first \/ exist
    <3>1. \A j \in Ids : Back(online'[j]) <=> Back(online[j])
      BY <2>1, <2>5 DEF TypeOK
    <3> QED
      BY <1>1, <2>1, <2>4, <2>5, <3>1
  <2>6. CASE ~(first \/ exist)
    <3>1. online'[i] = "announcing" /\ \A j \in Ids \ {i} : online'[j] = online[j]
      BY <2>1, <2>2, <2>6 DEF TypeOK
    <3>2. Returns' = Returns \cup {i} /\ i \notin Returns /\ Losses' = Losses
      BY <2>1, <3>1 DEF Returns, Losses
    <3>3. IsFiniteSet(Returns')
          /\ Cardinality(Returns') = Cardinality(Returns) + 1
      BY <3>2, FS_AddElement DEF Alternating
    <3>4. Cardinality(Losses) = Cardinality(Returns) + 1
      BY <2>6 DEF Alternating, NoticesAlternate
    <3>5. Cardinality(Returns) + 1 = (Cardinality(Returns) + 1) + 0
      BY FS_CardinalityType DEF Alternating
    <3> QED
      BY <2>4, <3>2, <3>3, <3>4, <3>5 DEF Alternating, NoticesAlternate
  <2> QED
    BY <2>5, <2>6
<1>8. ASSUME NEW i \in Ids, OfflineChecks(i) \/ MarkPending(i) PROVE Alternating'
  <2>1. UNCHANGED <<first, exist, online>>
    BY <1>8 DEF OfflineChecks, MarkPending, notice
  <2>2. \A j \in Ids : Told(offline'[j]) <=> Told(offline[j])
    BY <1>8 DEF OfflineChecks, MarkPending, TypeOK
  <2> QED
    BY <1>1, <2>1, <2>2
<1>9. ASSUME NEW i \in Ids, GraceEnds(i) PROVE Alternating'
  <2>1. offline[i] = "waiting" /\ online' = online /\ first' = first
    BY <1>9 DEF GraceEnds
  <2>2. CASE pending /\ current = i
    <3>1. exist /\ ~first
      BY <2>2 DEF NoticeParts, NoticeInv
    <3>2. /\ ~exist' /\ offline'[i] = "told"
          /\ \A j \in Ids \ {i} : offline'[j] = offline[j]
      BY <1>9, <2>2 DEF GraceEnds, TypeOK
    <3>3. Losses' = Losses \cup {i} /\ i \notin Losses /\ Returns' = Returns
      BY <2>1, <3>2 DEF Losses, Returns
    <3>4. IsFiniteSet(Losses') /\ Cardinality(Losses') = Cardinality(Losses) + 1
      BY <3>3, FS_AddElement DEF Alternating
    <3>5. Cardinality(Losses) = Cardinality(Returns) + 0
      BY <3>1 DEF Alternating, NoticesAlternate
    <3>6. Cardinality(Returns) + 0 = Cardinality(Returns)
      BY FS_CardinalityType DEF Alternating
    <3> QED
      BY <2>1, <3>1, <3>2, <3>3, <3>4, <3>5, <3>6 DEF Alternating, NoticesAlternate
  <2>3. CASE ~(pending /\ current = i)
    <3>1. UNCHANGED exist /\ offline' = [offline EXCEPT ![i] = "over"]
      BY <1>9, <2>3 DEF GraceEnds
    <3>2. \A j \in Ids : Told(offline'[j]) <=> Told(offline[j])
      BY <2>1, <3>1 DEF TypeOK
    <3> QED
      BY <1>1, <2>1, <3>1, <3>2
  <2> QED
    BY <2>2, <2>3
<1>10. ASSUME Lapse \/ TimerFires \/ Admin PROVE UNCHANGED <<first, exist, online, offline>>
  BY <1>10 DEF Lapse, TimerFires, Admin, Toggle, DeleteRow, DeleteConnected, notice
<1>11. ASSUME NEW f \in fired, RemoveEntry(f[1], f[2])
       PROVE  UNCHANGED <<first, exist, online, offline>>
  BY <1>11 DEF RemoveEntry, notice
<1>12. ASSUME UNCHANGED vars PROVE UNCHANGED <<first, exist, online, offline>>
  BY <1>12 DEF vars, notice
<1> QED
  BY <1>2, <1>3, <1>4, <1>5, <1>6, <1>7, <1>8, <1>9, <1>10, <1>11, <1>12
  DEF Next, Poll, ReportOverSocket, Expiry, Notify

-----------------------------------------------------------------------------
LEMMA IInvStep == IInv /\ [Next]_vars => IInv'
  BY TypeOKStep, LatestServedStep, PolledIsShownStep, SessionInvStep, OnceLostStep, NoticeStep,
     AlternatingStep
  DEF IInv, NoticeParts

LEMMA IInvSafe == Spec => []IInv
  BY InitIInv, IInvStep, PTL DEF Spec

\* The types of the registry, the sessions and the notification state.
THEOREM TypeCorrect == Spec => []TypeOK
  BY IInvSafe, PTL DEF IInv

\* Whatever the order in which connections replace each other, the registry
\* holds the one that registered last until that one ends, and v2 events
\* reach it (connections.go: DeleteClientConditionally).
THEOREM LatestServedSafe == Spec => []LatestServed
  BY IInvSafe, PTL DEF IInv

\* A late expiry timer never hides an agent that polls (presence.go).
THEOREM PolledIsShownSafe == Spec => []PolledIsShown
  BY IInvSafe, PTL DEF IInv

\* Every loss the owner was told of but the present one has exactly one return,
\* which was announced, is about to be, or was muted by the setting (offline.go:
\* isConnExist; OnlineNotification looks at the setting after the state).
THEOREM NoticesAlternateSafe == Spec => []NoticesAlternate
  BY IInvSafe, PTL DEF IInv, Alternating

\* A pending offline state has the goroutine that ends it (offline.go).
THEOREM PendingHasWaiterSafe == Spec => []PendingHasWaiter
  BY IInvSafe, PTL DEF IInv, NoticeParts

=============================================================================
