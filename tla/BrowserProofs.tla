---------------------------- MODULE BrowserProofs ----------------------------
(***************************************************************************)
(* Proofs about the browser's side of a session, for any number of tabs,   *)
(* users and calls in flight.                                              *)
(***************************************************************************)
EXTENDS BrowserProperties, FiniteSetTheorems, TLAPS

-----------------------------------------------------------------------------
(* Stamps.                                                                 *)

\* A new refresh token can always be drawn: each tab slot keeps at most one from
\* being used, and so do the cookie and the session.
LEMMA FreshType ==
    ASSUME NEW u \in Users
    PROVE  Fresh(u) \in Tokens /\ Fresh(u).user = u /\ Fresh(u).stamp \in Stamps
<1> DEFINE Drawn  == Tabs \X Slots
           f      == [x \in Drawn |-> The(x).refresh.stamp]
           Called == {f[x] : x \in Drawn}
           Kept   == {cookie.stamp} \cup {live[u]}
<1>1. /\ IsFiniteSet(Drawn) /\ Cardinality(Drawn) = Cardinality(Tabs) * Cardinality(Slots)
      /\ Cardinality(Drawn) \in Nat
  BY StampsAssumption, FS_Product, FS_CardinalityType
<1>2. IsFiniteSet(Called) /\ Cardinality(Called) <= Cardinality(Drawn)
  <2>1. f \in Surjection(Drawn, Called)
    BY DEF Surjection
  <2> QED
    BY <1>1, <2>1, FS_Surjection
<1>3. IsFiniteSet(Kept) /\ Cardinality(Kept) <= 2
  <2>1. /\ IsFiniteSet({cookie.stamp}) /\ Cardinality({cookie.stamp}) = 1
        /\ IsFiniteSet({live[u]}) /\ Cardinality({live[u]}) = 1
    BY FS_Singleton
  <2>2. /\ IsFiniteSet(Kept)
        /\ Cardinality(Kept) = 1 + 1 - Cardinality({cookie.stamp} \cap {live[u]})
    BY <2>1, FS_Union
  <2>3. Cardinality({cookie.stamp} \cap {live[u]}) \in Nat
    <3>1. IsFiniteSet({cookie.stamp} \cap {live[u]})
      BY <2>1, FS_Subset
    <3> QED
      BY <3>1, FS_CardinalityType
  <2> QED
    BY <2>2, <2>3
<1>4. /\ IsFiniteSet(Kept \cup Called)
      /\ Cardinality(Kept \cup Called) <= Cardinality(Tabs) * Cardinality(Slots) + 2
  <2> HIDE DEF Kept, Called, Drawn
  <2>1. /\ IsFiniteSet(Kept \cup Called)
        /\ Cardinality(Kept \cup Called) =
              Cardinality(Kept) + Cardinality(Called) - Cardinality(Kept \cap Called)
    BY <1>2, <1>3, FS_Union
  <2>2. /\ Cardinality(Kept) \in Nat /\ Cardinality(Called) \in Nat
        /\ Cardinality(Kept \cap Called) \in Nat
    <3>1. IsFiniteSet(Kept \cap Called)
      BY <1>3, FS_Subset
    <3> QED
      BY <1>2, <1>3, <3>1, FS_CardinalityType
  <2> QED
    BY <1>1, <1>2, <1>3, <2>1, <2>2
<1>5. \E s \in Stamps : [user |-> u, stamp |-> s] \notin InUse
  <2> SUFFICES ASSUME \A s \in Stamps : [user |-> u, stamp |-> s] \in InUse
               PROVE  FALSE
    OBVIOUS
  <2>1. ASSUME NEW s \in Stamps
        PROVE  s \in Kept \cup Called
    <3>1. CASE [user |-> u, stamp |-> s] = cookie
      BY <3>1
    <3>2. ASSUME NEW v \in Users, [user |-> u, stamp |-> s] = [user |-> v, stamp |-> live[v]]
          PROVE  s \in Kept
      BY <3>2
    <3>3. ASSUME NEW x \in InFlight, [user |-> u, stamp |-> s] = The(x).refresh
          PROVE  s \in Called
      <4>1. x \in Drawn
        BY DEF InFlight
      <4>2. f[x] = s
        BY <3>3, <4>1
      <4> QED
        BY <4>1, <4>2
    <3> QED
      BY <3>1, <3>2, <3>3 DEF InUse
  <2>2. Stamps \subseteq Kept \cup Called
    BY <2>1
  <2> HIDE DEF Kept, Called
  <2>3. IsFiniteSet(Stamps) /\ Cardinality(Stamps) <= Cardinality(Kept \cup Called)
    BY <1>4, <2>2, FS_Subset
  <2>4. /\ Cardinality(Stamps) \in Nat /\ Cardinality(Kept \cup Called) \in Nat
        /\ Cardinality(Stamps) > Cardinality(Tabs) * Cardinality(Slots) + 2
    BY <1>4, <2>3, FS_CardinalityType, StampsAssumption
  <2> QED
    BY <1>1, <1>4, <2>3, <2>4
<1>6. (CHOOSE s \in Stamps : [user |-> u, stamp |-> s] \notin InUse) \in Stamps
  BY <1>5
<1> QED
  BY <1>6 DEF Fresh, Tokens

-----------------------------------------------------------------------------
(* The inductive invariant.                                                *)

\* What a call in a tab's slot carries, besides its type.
IsGoodCall(q) ==
    /\ IsCall(q)
    /\ q # Free /\ q.kind = "login" => q.user \in Users
    /\ q.phase = "refresh_ok" => q.refresh \in Tokens

\* A tab and its calls: the lock is held exactly as long as one refresh is on
\* its way, and a page that is loading has nothing in memory.
IsGoodTab(a, calls) ==
    /\ IsTab(a)
    /\ DOMAIN calls = Slots /\ \A c \in Slots : IsGoodCall(calls[c])
    /\ \A c, d \in Slots : Refreshing(calls[c]) /\ Refreshing(calls[d]) => c = d
    /\ a.lock <=> \E c \in Slots : Refreshing(calls[c])
    /\ ~a.mounted => a = BlankTab /\ \A c \in Slots : calls[c] = Free

BInv ==
    /\ DOMAIN tab = Tabs /\ DOMAIN call = Tabs
    /\ \A t \in Tabs : IsGoodTab(tab[t], call[t])
    /\ cookie \in MaybeToken /\ storedUser \in Users \cup {NoUser}
    /\ live \in [Users -> Stamps \cup {0}]

LEMMA BInvTypes == BInv => TypeOK /\ OneRefreshPerTab
  BY DEF BInv, IsGoodTab, IsGoodCall, TypeOK, OneRefreshPerTab

-----------------------------------------------------------------------------
(* Tabs.                                                                   *)

\* b is a tab as a is one, as far as its calls are concerned.
Alike(a, b) == IsTab(b) /\ b.mounted = a.mounted /\ b.lock = a.lock

\* Assigning to some of a tab's fields.
LEMMA AssignTab ==
    ASSUME NEW a, IsTab(a), NEW set
    PROVE  LET b == Assign(a, set) IN
           /\ DOMAIN b = DOMAIN a
           /\ b.mounted = IF "mounted" \in DOMAIN set THEN set.mounted ELSE a.mounted
           /\ b.access = IF "access" \in DOMAIN set THEN set.access ELSE a.access
           /\ b.fresh = IF "fresh" \in DOMAIN set THEN set.fresh ELSE a.fresh
           /\ b.lock = IF "lock" \in DOMAIN set THEN set.lock ELSE a.lock
           /\ b.user = IF "user" \in DOMAIN set THEN set.user ELSE a.user
           /\ b.loading = IF "loading" \in DOMAIN set THEN set.loading ELSE a.loading
           /\ b.timer = IF "timer" \in DOMAIN set THEN set.timer ELSE a.timer
           /\ b.socket = IF "socket" \in DOMAIN set THEN set.socket ELSE a.socket
  BY DEF IsTab, Assign

\* ... with values of their types, and none to the fields the calls depend on.
LEMMA AssignAlike ==
    ASSUME NEW a, IsTab(a), NEW set, DOMAIN set \cap {"mounted", "lock"} = {},
           "access" \in DOMAIN set => set.access \in Users \cup {NoUser},
           "fresh" \in DOMAIN set => set.fresh \in BOOLEAN,
           "user" \in DOMAIN set => set.user \in Users \cup {NoUser},
           "loading" \in DOMAIN set => set.loading \in BOOLEAN,
           "timer" \in DOMAIN set => set.timer \in BOOLEAN,
           "socket" \in DOMAIN set => IsSocket(set.socket),
           LET b == Assign(a, set) IN b.fresh => b.access # NoUser
    PROVE  Alike(a, Assign(a, set))
<1> DEFINE b == Assign(a, set)
<1>1. /\ DOMAIN b = DOMAIN a /\ b.mounted = a.mounted /\ b.lock = a.lock
      /\ b.access = IF "access" \in DOMAIN set THEN set.access ELSE a.access
      /\ b.fresh = IF "fresh" \in DOMAIN set THEN set.fresh ELSE a.fresh
      /\ b.user = IF "user" \in DOMAIN set THEN set.user ELSE a.user
      /\ b.loading = IF "loading" \in DOMAIN set THEN set.loading ELSE a.loading
      /\ b.timer = IF "timer" \in DOMAIN set THEN set.timer ELSE a.timer
      /\ b.socket = IF "socket" \in DOMAIN set THEN set.socket ELSE a.socket
  BY AssignTab
<1>2. b.fresh => b.access # NoUser
  OBVIOUS
<1> HIDE DEF b
<1>3. b.mounted \in BOOLEAN /\ b.lock \in BOOLEAN
  BY <1>1 DEF IsTab
<1>4. b.fresh \in BOOLEAN /\ b.loading \in BOOLEAN /\ b.timer \in BOOLEAN
  BY <1>1 DEF IsTab
<1>5. b.access \in Users \cup {NoUser} /\ b.user \in Users \cup {NoUser}
  BY <1>1 DEF IsTab
<1>6. IsSocket(b.socket)
  BY <1>1 DEF IsTab
<1>7. DOMAIN b = {"mounted", "access", "fresh", "lock", "user", "loading", "timer", "socket"}
  BY <1>1 DEF IsTab
<1>8. {b.mounted, b.fresh, b.lock, b.loading, b.timer} \subseteq BOOLEAN
  BY <1>3, <1>4
<1>9. {b.access, b.user} \subseteq Users \cup {NoUser}
  BY <1>5
<1> QED
  BY <1>1, <1>2, <1>6, <1>7, <1>8, <1>9 DEF Alike, IsTab, b

\* The operators on a tab.
LEMMA TabOperators ==
    ASSUME NEW a, IsTab(a)
    PROVE  /\ \A u \in Users : Alike(a, Having(a, u))
           /\ Alike(a, Cleared(a))
           /\ \A u \in Users \cup {NoUser} : Alike(a, SignedIn(a, u))
           /\ Alike(a, SignedOut(a))
           /\ Alike(a, Assign(a, [timer |-> FALSE]))
           /\ Alike(a, [a EXCEPT !.loading = TRUE])
           /\ Alike(a, [a EXCEPT !.fresh = FALSE])
           /\ Alike(a, [a EXCEPT !.socket.connected = ~@])
<1>a. /\ a.mounted \in BOOLEAN /\ a.fresh \in BOOLEAN /\ a.lock \in BOOLEAN
      /\ a.loading \in BOOLEAN /\ a.timer \in BOOLEAN
      /\ a.access \in Users \cup {NoUser} /\ a.user \in Users \cup {NoUser}
      /\ IsSocket(a.socket) /\ (a.fresh => a.access # NoUser)
  BY DEF IsTab
<1>b. \A s, u : IsSocket(s) /\ u \in Users \cup {NoUser} => IsSocket(Connect(s, u))
  BY DEF IsSocket, Connect
<1>c. IsSocket(NoSocket)
  BY DEF IsSocket, NoSocket
<1>1. ASSUME NEW u \in Users
      PROVE  Alike(a, Having(a, u))
  <2> DEFINE set == [access |-> u, fresh |-> TRUE]
  <2>1. /\ DOMAIN set = {"access", "fresh"} /\ set.access \in Users /\ set.access # NoUser
        /\ set.fresh \in BOOLEAN
    BY NoUserAssumption
  <2>2. Having(a, u) = Assign(a, set)
    BY DEF Having
  <2> HIDE DEF set
  <2>3. Assign(a, set).access # NoUser
    BY <2>1, AssignTab
  <2> QED
    BY <2>1, <2>2, <2>3, AssignAlike
<1>2. Alike(a, Cleared(a))
  <2> DEFINE set == [access |-> NoUser, fresh |-> FALSE]
  <2>1. /\ DOMAIN set = {"access", "fresh"} /\ set.access \in {NoUser}
        /\ set.fresh \in BOOLEAN /\ set.fresh = FALSE
    OBVIOUS
  <2>2. Cleared(a) = Assign(a, set)
    BY DEF Cleared
  <2> HIDE DEF set
  <2>3. ~Assign(a, set).fresh
    BY <2>1, AssignTab
  <2> QED
    BY <2>1, <2>2, <2>3, AssignAlike
<1>3. ASSUME NEW u \in Users \cup {NoUser}
      PROVE  Alike(a, SignedIn(a, u))
  <2> DEFINE set == [user |-> u, loading |-> FALSE, timer |-> Clocked(a),
                     socket |-> Connect(a.socket, a.access)]
  <2>1. /\ DOMAIN set = {"user", "loading", "timer", "socket"}
        /\ set.user \in Users \cup {NoUser}
        /\ set.loading \in BOOLEAN /\ set.timer \in BOOLEAN /\ IsSocket(set.socket)
    BY <1>a, <1>b DEF Clocked
  <2>2. SignedIn(a, u) = Assign(a, set)
    BY DEF SignedIn
  <2> HIDE DEF set
  <2>3. Assign(a, set).fresh => Assign(a, set).access # NoUser
    BY <1>a, <2>1, AssignTab
  <2> QED
    BY <2>1, <2>2, <2>3, AssignAlike
<1>4. Alike(a, SignedOut(a))
  <2> DEFINE set == [user |-> NoUser, loading |-> FALSE,
                     socket |-> IF a.user = NoUser THEN a.socket ELSE NoSocket]
  <2>1. /\ DOMAIN set = {"user", "loading", "socket"} /\ set.user \in {NoUser}
        /\ set.loading \in BOOLEAN /\ IsSocket(set.socket)
    BY <1>a, <1>c
  <2>2. SignedOut(a) = Assign(a, set)
    BY DEF SignedOut
  <2> HIDE DEF set
  <2>3. Assign(a, set).fresh => Assign(a, set).access # NoUser
    BY <1>a, <2>1, AssignTab
  <2> QED
    BY <2>1, <2>2, <2>3, AssignAlike
<1>5. Alike(a, Assign(a, [timer |-> FALSE]))
  <2> DEFINE set == [timer |-> FALSE]
  <2>1. DOMAIN set = {"timer"} /\ set.timer \in BOOLEAN
    OBVIOUS
  <2> HIDE DEF set
  <2>2. Assign(a, set).fresh => Assign(a, set).access # NoUser
    BY <1>a, <2>1, AssignTab
  <2>3. Alike(a, Assign(a, set))
    BY <2>1, <2>2, AssignAlike
  <2> QED
    BY <2>3 DEF set
<1>6. Alike(a, [a EXCEPT !.loading = TRUE])
  BY <1>a DEF Alike, IsTab
<1>7. Alike(a, [a EXCEPT !.fresh = FALSE])
  BY <1>a DEF Alike, IsTab
<1>8. Alike(a, [a EXCEPT !.socket.connected = ~@])
  <2>1. IsSocket([a.socket EXCEPT !.connected = ~@])
    BY <1>a DEF IsSocket
  <2> QED
    BY <1>a, <2>1 DEF Alike, IsTab
<1> QED
  BY <1>1, <1>2, <1>3, <1>4, <1>5, <1>6, <1>7, <1>8

\* Releasing the lock.
LEMMA UnlockedTab ==
    ASSUME NEW a, IsTab(a), NEW set, DOMAIN set \subseteq {"lock", "socket"},
           "lock" \in DOMAIN set, set.lock = FALSE,
           "socket" \in DOMAIN set => IsSocket(set.socket)
    PROVE  LET b == Assign(a, set)
           IN  IsTab(b) /\ b.mounted = a.mounted /\ b.user = a.user /\ b.timer = a.timer /\ ~b.lock
<1> DEFINE b == Assign(a, set)
<1>1. /\ DOMAIN b = DOMAIN a /\ b.mounted = a.mounted /\ b.lock = FALSE
      /\ b.access = a.access /\ b.fresh = a.fresh /\ b.user = a.user
      /\ b.loading = a.loading /\ b.timer = a.timer
      /\ b.socket = IF "socket" \in DOMAIN set THEN set.socket ELSE a.socket
  BY AssignTab
<1> HIDE DEF b
<1>2. IsTab(b)
  BY <1>1 DEF IsTab
<1> QED
  BY <1>1, <1>2 DEF b

\* Setting one slot to a call that refreshes exactly if the one there did.
LEMMA SlotSet ==
    ASSUME NEW a, NEW calls, IsGoodTab(a, calls), NEW b, Alike(a, b), a.mounted,
           NEW c \in Slots, NEW q, IsGoodCall(q), Refreshing(q) <=> Refreshing(calls[c])
    PROVE  IsGoodTab(b, [calls EXCEPT ![c] = q])
<1> DEFINE new == [calls EXCEPT ![c] = q]
<1>1. DOMAIN new = Slots /\ \A d \in Slots : new[d] = IF d = c THEN q ELSE calls[d]
  BY DEF IsGoodTab
<1>2. \A d \in Slots : IsGoodCall(new[d]) /\ (Refreshing(new[d]) <=> Refreshing(calls[d]))
  BY <1>1 DEF IsGoodTab
<1> HIDE DEF new
<1> QED
  BY <1>1, <1>2 DEF IsGoodTab, Alike

\* A blank tab with free slots.
LEMMA BlankIsGood == IsGoodTab(BlankTab, [c \in Slots |-> Free])
<1>1. IsTab(BlankTab)
  BY DEF IsTab, BlankTab, IsSocket, NoSocket
<1>2. IsGoodCall(Free) /\ ~Refreshing(Free)
  BY DEF IsGoodCall, IsCall, Free, Refreshing
<1>3. ~BlankTab.lock
  BY DEF BlankTab
<1> QED
  BY <1>1, <1>2, <1>3 DEF IsGoodTab

\* A tab is mounted that has anything in memory or in flight.
LEMMA MountedTab ==
    ASSUME NEW a, NEW calls, IsGoodTab(a, calls)
    PROVE  /\ a.user # NoUser \/ a.timer \/ a.fresh \/ a.socket # NoSocket => a.mounted
           /\ \A c \in Slots : calls[c].phase # "free" => a.mounted
  BY DEF IsGoodTab, BlankTab, Free

\* A step of one tab, t, that makes it b with the calls new.
TabIs(t, b) ==
    DOMAIN tab' = Tabs /\ tab'[t] = b /\ \A s \in Tabs \ {t} : tab'[s] = tab[s]
CallsAre(t, new) ==
    DOMAIN call' = Tabs /\ call'[t] = new /\ \A s \in Tabs \ {t} : call'[s] = call[s]
RestTyped ==
    /\ cookie' \in MaybeToken /\ storedUser' \in Users \cup {NoUser}
    /\ live' \in [Users -> Stamps \cup {0}]

LEMMA TabStep ==
    ASSUME BInv, NEW t \in Tabs, NEW b, NEW new, IsGoodTab(b, new),
           TabIs(t, b), CallsAre(t, new), RestTyped
    PROVE  BInv'
  BY DEF BInv, TabIs, CallsAre, RestTyped

\* How the actions write such a step.
LEMMA TabWrites ==
    ASSUME BInv, NEW t \in Tabs
    PROVE  /\ \A b : tab' = [tab EXCEPT ![t] = b] => TabIs(t, b)
           /\ UNCHANGED tab => TabIs(t, tab[t])
           /\ \A new : call' = [call EXCEPT ![t] = new] => CallsAre(t, new)
           /\ \A c, q : call' = With(t, c, q) => CallsAre(t, [call[t] EXCEPT ![c] = q])
           /\ UNCHANGED call => CallsAre(t, call[t])
  BY DEF BInv, TabIs, CallsAre, With

\* A step of one tab that sets one slot.
LEMMA SlotStep ==
    ASSUME BInv, NEW t \in Tabs, tab[t].mounted, NEW b, Alike(tab[t], b), TabIs(t, b),
           NEW c \in Slots, NEW q, IsGoodCall(q), Refreshing(q) <=> Refreshing(call[t][c]),
           call' = With(t, c, q), RestTyped
    PROVE  BInv'
<1>1. IsGoodTab(tab[t], call[t])
  BY DEF BInv
<1>2. IsGoodTab(b, [call[t] EXCEPT ![c] = q])
  BY <1>1, SlotSet
<1> QED
  BY <1>2, TabWrites, TabStep

\* A step of one tab that leaves its calls alone.
LEMMA MemoryStep ==
    ASSUME BInv, NEW t \in Tabs, tab[t].mounted, NEW b, Alike(tab[t], b), TabIs(t, b),
           UNCHANGED call, RestTyped
    PROVE  BInv'
<1>1. IsGoodTab(b, call[t])
  BY DEF BInv, IsGoodTab, Alike
<1> QED
  BY <1>1, TabWrites, TabStep

\* A call as it is sent.
LEMMA SentType ==
    ASSUME NEW kind \in {"login", "mistyped", "logout", "profile", "api"},
           NEW user \in Users \cup {NoUser}, kind = "login" => user \in Users,
           NEW header \in Users \cup {NoUser}
    PROVE  IsGoodCall(Sent(kind, user, header)) /\ ~Refreshing(Sent(kind, user, header))
  BY DEF Sent, IsGoodCall, IsCall, Refreshing, MaybeToken, Free

\* The header of a call is a user's or none.
LEMMA HeaderType ==
    ASSUME NEW a, IsTab(a)
    PROVE  Header(a) \in Users \cup {NoUser}
  BY DEF Header, IsTab

\* A call once it is answered (Answered).
AnsweredCall(q, phase, set) ==
    Assign(q, [f \in DOMAIN set \cup {"phase"} |-> IF f = "phase" THEN phase ELSE set[f]])

LEMMA AnsweredType ==
    ASSUME NEW q, IsGoodCall(q), q # Free, NEW set, DOMAIN set \subseteq {"refresh", "retried"},
           NEW phase \in {"sent", "ok", "refused", "waiting",
                          "refresh_sent", "refresh_ok", "refresh_refused"},
           "retried" \in DOMAIN set => set.retried \in BOOLEAN,
           "refresh" \in DOMAIN set => set.refresh \in MaybeToken,
           phase = "refresh_ok" => "refresh" \in DOMAIN set /\ set.refresh \in Tokens
    PROVE  IsGoodCall(AnsweredCall(q, phase, set)) /\ AnsweredCall(q, phase, set).phase = phase
<1> DEFINE p == [f \in DOMAIN set \cup {"phase"} |-> IF f = "phase" THEN phase ELSE set[f]]
           new == Assign(q, p)
<1>1. q \in [phase : {"sent", "ok", "refused", "waiting",
                      "refresh_sent", "refresh_ok", "refresh_refused"},
             kind : {"login", "mistyped", "logout", "profile", "api"},
             user : Users \cup {NoUser}, header : Users \cup {NoUser},
             retried : BOOLEAN, refresh : MaybeToken]
  BY DEF IsGoodCall, IsCall
<1>2. DOMAIN q = {"phase", "kind", "user", "header", "retried", "refresh"}
  BY <1>1
<1>3. DOMAIN p = DOMAIN set \cup {"phase"} /\ p.phase = phase
      /\ \A f \in DOMAIN set : f # "phase" => p[f] = set[f]
  OBVIOUS
<1>4. new = [f \in DOMAIN q |-> IF f \in DOMAIN p THEN p[f] ELSE q[f]]
  BY DEF Assign
<1> HIDE DEF p, new
<1>5. /\ new.phase = phase /\ new.kind = q.kind /\ new.user = q.user /\ new.header = q.header
      /\ new.retried = IF "retried" \in DOMAIN set THEN set.retried ELSE q.retried
      /\ new.refresh = IF "refresh" \in DOMAIN set THEN set.refresh ELSE q.refresh
  BY <1>2, <1>3, <1>4
<1>6. new = [phase |-> new.phase, kind |-> new.kind, user |-> new.user, header |-> new.header,
             retried |-> new.retried, refresh |-> new.refresh]
  BY <1>2, <1>4
<1>7. IsCall(new)
  <2>1. /\ new.kind \in {"login", "mistyped", "logout", "profile", "api"}
        /\ new.user \in Users \cup {NoUser} /\ new.header \in Users \cup {NoUser}
        /\ new.retried \in BOOLEAN /\ new.refresh \in MaybeToken
    BY <1>1, <1>5
  <2> QED
    BY <1>5, <1>6, <2>1 DEF IsCall
<1>8. (new.kind = "login" => new.user \in Users) /\ (new.phase = "refresh_ok" => new.refresh \in Tokens)
  BY <1>5 DEF IsGoodCall
<1>9. IsGoodCall(new)
  BY <1>7, <1>8 DEF IsGoodCall
<1> QED
  BY <1>5, <1>9 DEF new, p, AnsweredCall

-----------------------------------------------------------------------------
(* The actions preserve the invariant.                                     *)

LEMMA InitBInv == Init => BInv
<1> SUFFICES ASSUME Init PROVE BInv
  OBVIOUS
<1>1. \A t \in Tabs : IsGoodTab(tab[t], call[t])
  BY BlankIsGood DEF Init
<1> QED
  BY <1>1 DEF Init, BInv, MaybeToken

\* What a call in flight says of its slot and its tab.
LEMMA InFlightFacts ==
    ASSUME BInv, NEW t \in Tabs, NEW c \in Slots, call[t][c].phase # "free"
    PROVE  LET q == call[t][c] IN
           /\ tab[t].mounted /\ IsTab(tab[t]) /\ IsGoodCall(q) /\ q # Free
           /\ q.kind \in {"login", "mistyped", "logout", "profile", "api"}
           /\ q.user \in Users \cup {NoUser} /\ q.header \in Users \cup {NoUser}
           /\ q.retried \in BOOLEAN /\ q.refresh \in MaybeToken
           /\ q.kind = "login" => q.user \in Users
           /\ q.phase = "refresh_ok" => q.refresh \in Tokens
<1>1. IsGoodTab(tab[t], call[t])
  BY DEF BInv
<1>2. tab[t].mounted /\ IsTab(tab[t]) /\ IsGoodCall(call[t][c]) /\ call[t][c] # Free
  BY <1>1, MountedTab DEF IsGoodTab, Free
<1> QED
  BY <1>2 DEF IsGoodCall, IsCall

LEMMA FreeIsGood == IsGoodCall(Free) /\ ~Refreshing(Free) /\ Free.phase = "free"
  BY DEF IsGoodCall, IsCall, Free, Refreshing

\* The types of what an action leaves alone.
LEMMA RestIsTyped ==
    ASSUME BInv
    PROVE  /\ UNCHANGED cookie => cookie' \in MaybeToken
           /\ UNCHANGED storedUser => storedUser' \in Users \cup {NoUser}
           /\ UNCHANGED live => live' \in [Users -> Stamps \cup {0}]
           /\ NoToken \in MaybeToken
           /\ \A u : live' = [live EXCEPT ![u] = 0] => live' \in [Users -> Stamps \cup {0}]
  BY DEF BInv, MaybeToken

LEMMA SubmitLoginStep ==
    ASSUME BInv, NEW t \in Tabs, NEW c \in Slots, SubmitLogin(t, c)
    PROVE  BInv'
<1>1. tab[t].mounted /\ IsTab(tab[t]) /\ ~Refreshing(call[t][c])
  BY FreeIsGood DEF SubmitLogin, BInv, IsGoodTab
<1>2. RestTyped
  BY RestIsTyped DEF SubmitLogin, RestTyped
<1>3. Alike(tab[t], [tab[t] EXCEPT !.loading = TRUE])
  BY <1>1, TabOperators
<1>4. TabIs(t, [tab[t] EXCEPT !.loading = TRUE])
  <2>1. tab' = [tab EXCEPT ![t] = [tab[t] EXCEPT !.loading = TRUE]]
    BY DEF SubmitLogin
  <2> QED
    BY <2>1, TabWrites
<1>5. Header(tab[t]) \in Users \cup {NoUser}
  BY <1>1, HeaderType
<1>6. ASSUME NEW u \in Users, call' = With(t, c, Sent("login", u, Header(tab[t])))
      PROVE  BInv'
  <2>1. /\ IsGoodCall(Sent("login", u, Header(tab[t])))
        /\ ~Refreshing(Sent("login", u, Header(tab[t])))
    BY <1>5, SentType
  <2> QED
    BY <1>1, <1>2, <1>3, <1>4, <1>6, <2>1, SlotStep
<1>7. ASSUME call' = With(t, c, Sent("mistyped", NoUser, Header(tab[t])))
      PROVE  BInv'
  <2>1. /\ IsGoodCall(Sent("mistyped", NoUser, Header(tab[t])))
        /\ ~Refreshing(Sent("mistyped", NoUser, Header(tab[t])))
    BY <1>5, SentType
  <2> QED
    BY <1>1, <1>2, <1>3, <1>4, <1>7, <2>1, SlotStep
<1> QED
  BY <1>6, <1>7 DEF SubmitLogin

LEMMA UsePageStep ==
    ASSUME BInv, NEW t \in Tabs, NEW c \in Slots, UsePage(t, c)
    PROVE  BInv'
<1> DEFINE q == Sent("api", NoUser, Header(tab[t]))
<1>1. tab[t].mounted /\ IsTab(tab[t]) /\ ~Refreshing(call[t][c])
  BY FreeIsGood, MountedTab DEF UsePage, BInv, IsGoodTab
<1>2. IsGoodCall(q) /\ ~Refreshing(q)
  BY <1>1, HeaderType, SentType
<1>3. call' = With(t, c, q)
  BY DEF UsePage
<1>4. RestTyped
  BY RestIsTyped DEF UsePage, RestTyped
<1>5. Alike(tab[t], tab[t]) /\ TabIs(t, tab[t])
  BY <1>1, TabWrites DEF Alike, UsePage
<1> HIDE DEF q
<1> QED
  BY <1>1, <1>2, <1>3, <1>4, <1>5, SlotStep

LEMMA SignOutStep ==
    ASSUME BInv, NEW t \in Tabs, NEW c \in Slots, tab[t].mounted, SignOut(t, c)
    PROVE  BInv'
<1> DEFINE b == Assign(SignedOut(Cleared(tab[t])), [timer |-> FALSE])
           q == Sent("logout", NoUser, Header(b))
<1>1. IsTab(tab[t]) /\ ~Refreshing(call[t][c])
  BY FreeIsGood DEF SignOut, BInv, IsGoodTab
<1>2. Alike(tab[t], b)
  <2>1. Alike(tab[t], Cleared(tab[t]))
    BY <1>1, TabOperators
  <2>2. Alike(Cleared(tab[t]), SignedOut(Cleared(tab[t])))
    BY <2>1, TabOperators DEF Alike
  <2>3. Alike(SignedOut(Cleared(tab[t])), b)
    BY <2>2, TabOperators DEF Alike
  <2> QED
    BY <2>1, <2>2, <2>3 DEF Alike
<1>3. tab' = [tab EXCEPT ![t] = b]
  BY DEF SignOut
<1>4. TabIs(t, b)
  BY <1>3, TabWrites
<1>5. call' = With(t, c, q)
  BY <1>4 DEF SignOut, TabIs
<1>6. IsGoodCall(q) /\ ~Refreshing(q)
  BY <1>2, HeaderType, SentType DEF Alike
<1>7. RestTyped
  BY RestIsTyped DEF SignOut, RestTyped
<1> HIDE DEF b, q
<1> QED
  BY <1>1, <1>2, <1>4, <1>5, <1>6, <1>7, SlotStep

LEMMA PageLoadStep ==
    ASSUME BInv, NEW t \in Tabs, PageLoad(t), RestTyped
    PROVE  BInv'
<1>1. TabIs(t, BlankTab) /\ CallsAre(t, [c \in Slots |-> Free])
  BY TabWrites DEF PageLoad
<1> QED
  BY <1>1, BlankIsGood, TabStep

LEMMA MountStep ==
    ASSUME BInv, NEW t \in Tabs, Mount(t)
    PROVE  BInv'
<1> DEFINE b == [tab[t] EXCEPT !.mounted = TRUE]
           c == CHOOSE d \in Slots : TRUE
           q == Sent("profile", storedUser, Header(tab[t]))
<1>1. IsGoodTab(tab[t], call[t])
  BY DEF BInv
<1>2. tab[t] = BlankTab /\ \A d \in Slots : call[t][d] = Free
  BY <1>1 DEF Mount, IsGoodTab
<1>3. IsTab(b) /\ b.mounted /\ ~b.lock
  BY <1>2 DEF IsTab, BlankTab, IsSocket, NoSocket
<1>4. c \in Slots
  BY SlotsAssumption
<1>5. tab' = [tab EXCEPT ![t] = b]
  BY DEF Mount
<1>6. TabIs(t, b)
  BY <1>5, TabWrites
<1>7. RestTyped
  BY RestIsTyped DEF Mount, RestTyped
<1>8. IsGoodCall(q) /\ ~Refreshing(q)
  <2>1. Header(tab[t]) \in Users \cup {NoUser}
    BY <1>1, HeaderType DEF IsGoodTab
  <2> QED
    BY <2>1, SentType DEF BInv
<1>9. call' = IF storedUser = NoUser THEN call ELSE With(t, c, q)
  BY DEF Mount
<1> HIDE DEF b, c, q
<1>10. CASE storedUser = NoUser
  <2>1. IsGoodTab(b, call[t])
    BY <1>1, <1>2, <1>3, FreeIsGood DEF IsGoodTab
  <2> QED
    BY <1>6, <1>7, <1>9, <1>10, <2>1, TabWrites, TabStep
<1>11. CASE storedUser # NoUser
  <2> DEFINE new == [call[t] EXCEPT ![c] = q]
  <2>1. DOMAIN new = Slots /\ \A d \in Slots : new[d] = IF d = c THEN q ELSE Free
    BY <1>1, <1>2 DEF IsGoodTab
  <2>2. CallsAre(t, new)
    BY <1>9, <1>11, TabWrites
  <2> HIDE DEF new
  <2>3. IsGoodTab(b, new)
    BY <1>3, <1>8, <2>1, FreeIsGood DEF IsGoodTab
  <2> QED
    BY <1>6, <1>7, <2>2, <2>3, TabStep
<1> QED
  BY <1>10, <1>11

\* A server's step: the call is answered and may carry a new token.
LEMMA AnsweredStep ==
    ASSUME BInv, NEW t \in Tabs, NEW c \in Slots, call[t][c].phase # "free",
           UNCHANGED <<tab, cookie, storedUser>>, live' \in [Users -> Stamps \cup {0}],
           NEW set, DOMAIN set \subseteq {"refresh", "retried"},
           NEW phase \in {"sent", "ok", "refused", "waiting",
                          "refresh_sent", "refresh_ok", "refresh_refused"},
           "retried" \in DOMAIN set => set.retried \in BOOLEAN,
           "refresh" \in DOMAIN set => set.refresh \in MaybeToken,
           phase = "refresh_ok" => "refresh" \in DOMAIN set /\ set.refresh \in Tokens,
           phase \in {"refresh_sent", "refresh_ok", "refresh_refused"} <=> Refreshing(call[t][c]),
           Answered(t, c, phase, set)
    PROVE  BInv'
<1> DEFINE q == call[t][c]
           new == AnsweredCall(q, phase, set)
<1>1. tab[t].mounted /\ IsTab(tab[t]) /\ IsGoodCall(q) /\ q # Free
  BY InFlightFacts
<1>2. IsGoodCall(new) /\ new.phase = phase
  BY <1>1, AnsweredType
<1>3. call' = With(t, c, new)
  BY DEF Answered, AnsweredCall
<1>4. RestTyped
  BY RestIsTyped DEF RestTyped
<1>5. Alike(tab[t], tab[t]) /\ TabIs(t, tab[t])
  BY <1>1, TabWrites DEF Alike
<1> HIDE DEF new
<1>6. Refreshing(new) <=> Refreshing(call[t][c])
  BY <1>2 DEF Refreshing
<1> QED
  BY <1>1, <1>2, <1>3, <1>4, <1>5, <1>6, SlotStep

\* ... a token pair.
LEMMA PairStep ==
    ASSUME BInv, NEW t \in Tabs, NEW c \in Slots, call[t][c].phase # "free",
           UNCHANGED <<tab, cookie, storedUser>>, NEW u \in Users,
           NEW phase \in {"ok", "refresh_ok"},
           phase = "refresh_ok" <=> Refreshing(call[t][c]), Pair(t, c, phase, u)
    PROVE  BInv'
<1> DEFINE set == [refresh |-> Fresh(u)]
<1>1. Fresh(u) \in Tokens /\ Fresh(u).stamp \in Stamps
  BY FreshType
<1>2. DOMAIN set = {"refresh"} /\ set.refresh \in Tokens /\ set.refresh \in MaybeToken
  BY <1>1 DEF MaybeToken
<1>3. live' \in [Users -> Stamps \cup {0}]
  BY <1>1 DEF Pair, BInv
<1>4. Answered(t, c, phase, set)
  BY DEF Pair
<1> HIDE DEF set
<1> QED
  BY <1>2, <1>3, <1>4, AnsweredStep

LEMMA NothingSet == DOMAIN <<>> = {}
  OBVIOUS

LEMMA ServeLoginStep ==
    ASSUME BInv, NEW t \in Tabs, NEW c \in Slots, ServeLogin(t, c)
    PROVE  BInv'
<1>1. call[t][c].phase # "free" /\ ~Refreshing(call[t][c])
  BY DEF ServeLogin, Refreshing
<1>2. UNCHANGED <<tab, cookie, storedUser>>
  BY DEF ServeLogin
<1>3. CASE call[t][c].kind = "login" /\ Pair(t, c, "ok", call[t][c].user)
  BY <1>1, <1>2, <1>3, InFlightFacts, PairStep
<1>4. CASE Answered(t, c, "refused", <<>>) /\ UNCHANGED live
  <2>1. live' \in [Users -> Stamps \cup {0}]
    BY <1>4, RestIsTyped
  <2> QED
    BY <1>1, <1>2, <1>4, <2>1, NothingSet, AnsweredStep
<1> QED
  BY <1>3, <1>4 DEF ServeLogin

LEMMA ServeStep ==
    ASSUME BInv, NEW t \in Tabs, NEW c \in Slots, Serve(t, c)
    PROVE  BInv'
<1>1. call[t][c].phase # "free" /\ ~Refreshing(call[t][c])
  BY DEF Serve, Refreshing
<1>2. UNCHANGED <<tab, cookie, storedUser>>
  BY DEF Serve
<1>3. PICK authentic \in Authentic(call[t][c]) :
          /\ Answered(t, c, IF authentic THEN "ok" ELSE "refused", <<>>)
          /\ live' = IF authentic /\ call[t][c].kind = "logout"
                     THEN [live EXCEPT ![call[t][c].header] = 0] ELSE live
  BY DEF Serve
<1>4. live' \in [Users -> Stamps \cup {0}]
  BY <1>3, RestIsTyped
<1>5. \/ Answered(t, c, "ok", <<>>)
      \/ Answered(t, c, "refused", <<>>)
  BY <1>3
<1>6. CASE Answered(t, c, "ok", <<>>)
  BY <1>1, <1>2, <1>4, <1>6, NothingSet, AnsweredStep
<1>7. CASE Answered(t, c, "refused", <<>>)
  BY <1>1, <1>2, <1>4, <1>7, NothingSet, AnsweredStep
<1> QED
  BY <1>5, <1>6, <1>7

LEMMA ServeRefreshStep ==
    ASSUME BInv, NEW t \in Tabs, NEW c \in Slots, ServeRefresh(t, c)
    PROVE  BInv'
<1> DEFINE q == call[t][c]
<1>1. q.phase # "free" /\ Refreshing(q)
  BY DEF ServeRefresh, Refreshing
<1>2. UNCHANGED <<tab, cookie, storedUser>>
  BY DEF ServeRefresh
<1>3. q.refresh \in Tokens \cup {NoToken}
  BY <1>1, InFlightFacts DEF MaybeToken
<1>4. CASE q.refresh # NoToken /\ live[q.refresh.user] = q.refresh.stamp
  <2>1. q.refresh.user \in Users
    BY <1>3, <1>4 DEF Tokens
  <2>2. Pair(t, c, "refresh_ok", q.refresh.user)
    BY <1>4 DEF ServeRefresh
  <2> QED
    BY <1>1, <1>2, <2>1, <2>2, PairStep
<1>5. CASE ~(q.refresh # NoToken /\ live[q.refresh.user] = q.refresh.stamp)
  <2>1. /\ Answered(t, c, "refresh_refused", <<>>)
        /\ live' = IF q.refresh = NoToken THEN live ELSE [live EXCEPT ![q.refresh.user] = 0]
    BY <1>5 DEF ServeRefresh
  <2>2. live' \in [Users -> Stamps \cup {0}]
    BY <2>1, RestIsTyped
  <2> QED
    BY <1>1, <1>2, <2>1, <2>2, NothingSet, AnsweredStep
<1> QED
  BY <1>4, <1>5

\* A step that ends a call which is not refreshing.
LEMMA EndedStep ==
    ASSUME BInv, NEW t \in Tabs, NEW c \in Slots,
           call[t][c].phase # "free", ~Refreshing(call[t][c]),
           NEW b, Alike(tab[t], b), TabIs(t, b), call' = With(t, c, Free), RestTyped
    PROVE  BInv'
<1>1. tab[t].mounted
  BY InFlightFacts
<1> QED
  BY <1>1, FreeIsGood, SlotStep

LEMMA LoginAnsweredStep ==
    ASSUME BInv, NEW t \in Tabs, NEW c \in Slots, LoginAnswered(t, c)
    PROVE  BInv'
<1> DEFINE q == call[t][c]
           b == SignedIn(Having(tab[t], q.user), q.user)
<1>1. q.phase # "free" /\ ~Refreshing(q)
  BY DEF LoginAnswered, Refreshing
<1>2. q.user \in Users /\ q.refresh \in MaybeToken /\ IsTab(tab[t])
  BY <1>1, InFlightFacts DEF LoginAnswered
<1>3. Alike(tab[t], b)
  <2>1. Alike(tab[t], Having(tab[t], q.user))
    BY <1>2, TabOperators
  <2>2. Alike(Having(tab[t], q.user), b)
    BY <1>2, <2>1, TabOperators DEF Alike
  <2> QED
    BY <2>1, <2>2 DEF Alike
<1>4. tab' = [tab EXCEPT ![t] = b] /\ call' = With(t, c, Free)
  BY DEF LoginAnswered
<1>5. RestTyped
  BY <1>2, RestIsTyped DEF LoginAnswered, RestTyped
<1> HIDE DEF b
<1> QED
  BY <1>1, <1>3, <1>4, <1>5, TabWrites, EndedStep

LEMMA ProfileAnsweredStep ==
    ASSUME BInv, NEW t \in Tabs, NEW c \in Slots, ProfileAnswered(t, c)
    PROVE  BInv'
<1> DEFINE q == call[t][c]
           b == SignedIn(tab[t], q.header)
<1>1. q.phase # "free" /\ ~Refreshing(q)
  BY DEF ProfileAnswered, Refreshing
<1>2. q.header \in Users \cup {NoUser} /\ IsTab(tab[t])
  BY <1>1, InFlightFacts
<1>3. Alike(tab[t], b) /\ Alike(tab[t], tab[t])
  BY <1>2, TabOperators DEF Alike
<1>4. call' = With(t, c, Free) /\ (tab' = [tab EXCEPT ![t] = b] \/ UNCHANGED tab)
  BY DEF ProfileAnswered
<1>5. RestTyped
  BY <1>2, RestIsTyped DEF ProfileAnswered, RestTyped
<1> HIDE DEF b
<1> QED
  BY <1>1, <1>3, <1>4, <1>5, TabWrites, EndedStep

LEMMA OtherAnsweredStep ==
    ASSUME BInv, NEW t \in Tabs, NEW c \in Slots, OtherAnswered(t, c)
    PROVE  BInv'
<1>1. call[t][c].phase # "free" /\ ~Refreshing(call[t][c])
  BY DEF OtherAnswered, Refreshing
<1>2. Alike(tab[t], tab[t])
  BY <1>1, InFlightFacts DEF Alike
<1>3. call' = With(t, c, Free) /\ UNCHANGED tab
  BY DEF OtherAnswered
<1>4. RestTyped
  BY RestIsTyped DEF OtherAnswered, RestTyped
<1> QED
  BY <1>1, <1>2, <1>3, <1>4, TabWrites, EndedStep

LEMMA RejectedType ==
    ASSUME NEW a, IsTab(a), NEW kinds
    PROVE  Alike(a, Rejected(a, kinds))
  BY TabOperators DEF Rejected, Alike

LEMMA StoredType ==
    ASSUME BInv, NEW kinds
    PROVE  StoredAfter(kinds) \in Users \cup {NoUser}
  BY DEF StoredAfter, BInv

LEMMA RejectStep ==
    ASSUME BInv, NEW t \in Tabs, NEW c \in Slots,
           call[t][c].phase # "free", ~Refreshing(call[t][c]), Reject(t, c)
    PROVE  BInv'
<1> DEFINE b == Rejected(tab[t], {call[t][c].kind})
<1>1. Alike(tab[t], b)
  BY InFlightFacts, RejectedType
<1>2. tab' = [tab EXCEPT ![t] = b] /\ call' = With(t, c, Free)
  BY DEF Reject
<1>3. RestTyped
  BY RestIsTyped, StoredType DEF Reject, RestTyped
<1> HIDE DEF b
<1> QED
  BY <1>1, <1>2, <1>3, TabWrites, EndedStep

LEMMA RefusedStep ==
    ASSUME BInv, NEW t \in Tabs, NEW c \in Slots, Refused(t, c)
    PROVE  BInv'
<1> DEFINE q == call[t][c]
           b == [tab[t] EXCEPT !.lock = TRUE]
<1>1. q.phase # "free" /\ ~Refreshing(q)
  BY DEF Refused, Refreshing
<1>2. tab[t].mounted /\ IsTab(tab[t]) /\ IsGoodCall(q) /\ q # Free
  BY <1>1, InFlightFacts
<1>3. IsGoodTab(tab[t], call[t])
  BY DEF BInv
<1>4. CASE ~MayRetry(q) /\ Reject(t, c)
  BY <1>1, <1>4, RejectStep
<1>5. ASSUME UNCHANGED <<cookie, storedUser, live>>, tab' = [tab EXCEPT ![t].lock = TRUE],
             NEW set, DOMAIN set \subseteq {"refresh", "retried"},
             "retried" \in DOMAIN set => set.retried \in BOOLEAN,
             "refresh" \in DOMAIN set => set.refresh \in MaybeToken,
             NEW phase \in {"refresh_sent", "waiting"},
             phase = "refresh_sent" <=> ~tab[t].lock,
             Answered(t, c, phase, set)
      PROVE  BInv'
  <2> DEFINE new == AnsweredCall(q, phase, set)
             calls == [call[t] EXCEPT ![c] = new]
  <2>1. IsGoodCall(new) /\ new.phase = phase
    BY <1>2, <1>5, AnsweredType
  <2>2. IsTab(b) /\ b.lock /\ b.mounted
    BY <1>2 DEF IsTab
  <2>3. tab' = [tab EXCEPT ![t] = b]
    BY <1>5
  <2>4. call' = With(t, c, new)
    BY <1>5 DEF Answered, AnsweredCall
  <2> HIDE DEF new, b
  <2>5. DOMAIN calls = Slots /\ \A d \in Slots : calls[d] = IF d = c THEN new ELSE call[t][d]
    BY <1>3 DEF IsGoodTab
  <2>6. TabIs(t, b) /\ CallsAre(t, calls)
    BY <2>3, <2>4, TabWrites
  <2> HIDE DEF calls
  <2>7. Refreshing(new) <=> ~tab[t].lock
    BY <1>5, <2>1 DEF Refreshing
  <2>8. \A d \in Slots : Refreshing(calls[d]) <=>
            IF tab[t].lock THEN Refreshing(call[t][d]) ELSE d = c
    BY <1>1, <1>3, <2>5, <2>7 DEF IsGoodTab
  <2>9. /\ \A d, e \in Slots : Refreshing(calls[d]) /\ Refreshing(calls[e]) => d = e
        /\ \E d \in Slots : Refreshing(calls[d])
    BY <1>3, <2>8 DEF IsGoodTab
  <2>10. \A d \in Slots : IsGoodCall(calls[d])
    BY <1>3, <2>1, <2>5 DEF IsGoodTab
  <2>11. IsGoodTab(b, calls)
    BY <2>2, <2>5, <2>9, <2>10 DEF IsGoodTab
  <2>12. RestTyped
    BY <1>5, RestIsTyped DEF RestTyped
  <2> QED
    BY <2>6, <2>11, <2>12, TabStep
<1>6. ASSUME ~tab[t].lock, UNCHANGED <<cookie, storedUser, live>>,
             tab' = [tab EXCEPT ![t].lock = TRUE],
             Answered(t, c, "refresh_sent", [refresh |-> cookie, retried |-> TRUE])
      PROVE  BInv'
  <2> DEFINE set == [refresh |-> cookie, retried |-> TRUE]
  <2>1. /\ DOMAIN set = {"refresh", "retried"} /\ set.refresh \in MaybeToken
        /\ set.retried \in BOOLEAN /\ Answered(t, c, "refresh_sent", set)
    BY <1>6 DEF BInv
  <2> HIDE DEF set
  <2> QED
    BY <1>5, <1>6, <2>1
<1>7. ASSUME tab[t].lock, UNCHANGED <<cookie, storedUser, live>>,
             tab' = [tab EXCEPT ![t].lock = TRUE],
             Answered(t, c, "waiting", [retried |-> TRUE])
      PROVE  BInv'
  <2> DEFINE set == [retried |-> TRUE]
  <2>1. /\ DOMAIN set = {"retried"} /\ set.retried \in BOOLEAN
        /\ Answered(t, c, "waiting", set)
    BY <1>7
  <2> HIDE DEF set
  <2> QED
    BY <1>5, <1>7, <2>1
<1> QED
  BY <1>4, <1>6, <1>7 DEF Refused, StartsRefresh

\* The end of a refresh: those that await it are made ends, the lock is released.
LEMMA RefreshEnds ==
    ASSUME BInv, NEW t \in Tabs, NEW c \in Slots, Refreshing(call[t][c]),
           NEW b, IsTab(b), b.mounted, ~b.lock, TabIs(t, b),
           NEW new, CallsAre(t, new), DOMAIN new = Slots,
           \A d \in Slots : IF d \in Awaiting(t, c)
                            THEN IsGoodCall(new[d]) /\ ~Refreshing(new[d])
                            ELSE new[d] = call[t][d],
           RestTyped
    PROVE  BInv'
<1>1. IsGoodTab(tab[t], call[t])
  BY DEF BInv
<1>2. c \in Awaiting(t, c)
  BY DEF Awaiting
<1>3. \A d \in Slots : IsGoodCall(new[d]) /\ ~Refreshing(new[d])
  BY <1>1, <1>2 DEF IsGoodTab
<1>4. IsGoodTab(b, new)
  BY <1>3 DEF IsGoodTab
<1> QED
  BY <1>4, TabStep

LEMMA RefreshAnsweredStep ==
    ASSUME BInv, NEW t \in Tabs, NEW c \in Slots, RefreshAnswered(t, c)
    PROVE  BInv'
<1> DEFINE q == call[t][c]
           user == q.refresh.user
           mid == Having(tab[t], user)
           set == [lock |-> FALSE, socket |-> Connect(tab[t].socket, user)]
           b == Assign(mid, set)
           resent == [phase |-> "sent", header |-> user, refresh |-> NoToken]
           again(d) == Assign(call[t][d], resent)
           new == [d \in Slots |-> IF d \in Awaiting(t, c) THEN again(d) ELSE call[t][d]]
<1>1. q.phase = "refresh_ok" /\ q.phase # "free" /\ Refreshing(q)
  BY DEF RefreshAnswered, Refreshing
<1>2. tab[t].mounted /\ IsTab(tab[t]) /\ q.refresh \in Tokens /\ user \in Users
  BY <1>1, InFlightFacts DEF Tokens
<1>3. Alike(tab[t], mid)
  BY <1>2, TabOperators
<1>4. IsTab(b) /\ b.mounted /\ ~b.lock
  <2>1. /\ DOMAIN set = {"lock", "socket"} /\ set.lock = FALSE
        /\ IsSocket(set.socket)
    BY <1>2 DEF IsTab, IsSocket, Connect
  <2>2. IsTab(mid) /\ mid.mounted
    BY <1>2, <1>3 DEF Alike
  <2> HIDE DEF set, mid
  <2> QED
    BY <2>1, <2>2, UnlockedTab
<1>5. tab' = [tab EXCEPT ![t] = b] /\ call' = [call EXCEPT ![t] = new]
  BY DEF RefreshAnswered
<1>6. TabIs(t, b) /\ CallsAre(t, new)
  BY <1>5, TabWrites
<1>7. ASSUME NEW d \in Slots, d \in Awaiting(t, c)
      PROVE  IsGoodCall(again(d)) /\ ~Refreshing(again(d))
  <2>1. call[t][d].phase # "free"
    BY <1>1, <1>7 DEF Awaiting
  <2> DEFINE p == call[t][d]
             r == again(d)
  <2>2. p \in [phase : {"sent", "ok", "refused", "waiting",
                        "refresh_sent", "refresh_ok", "refresh_refused"},
               kind : {"login", "mistyped", "logout", "profile", "api"},
               user : Users \cup {NoUser}, header : Users \cup {NoUser},
               retried : BOOLEAN, refresh : MaybeToken]
    BY <2>1, InFlightFacts DEF IsGoodCall, IsCall
  <2>3. p.kind = "login" => p.user \in Users
    BY <2>1, InFlightFacts
  <2>4. DOMAIN resent = {"phase", "header", "refresh"} /\ resent.phase = "sent"
        /\ resent.header = user /\ resent.refresh = NoToken
    OBVIOUS
  <2>5. r = [f \in DOMAIN p |-> IF f \in DOMAIN resent THEN resent[f] ELSE p[f]]
    BY DEF Assign
  <2> HIDE DEF p, r, resent
  <2>6. r = [phase |-> "sent", kind |-> p.kind, user |-> p.user, header |-> user,
             retried |-> p.retried, refresh |-> NoToken]
    BY <2>2, <2>4, <2>5
  <2>7. IsCall(r) /\ r.phase = "sent" /\ (r.kind = "login" => r.user \in Users)
    BY <1>2, <2>2, <2>3, <2>6 DEF IsCall, MaybeToken
  <2> QED
    BY <2>7 DEF IsGoodCall, Refreshing, r
<1>8. RestTyped
  BY <1>2, RestIsTyped DEF RefreshAnswered, RestTyped, MaybeToken
<1> HIDE DEF b, again
<1>9. DOMAIN new = Slots
      /\ \A d \in Slots : IF d \in Awaiting(t, c)
                          THEN IsGoodCall(new[d]) /\ ~Refreshing(new[d])
                          ELSE new[d] = call[t][d]
  BY <1>7
<1> HIDE DEF new
<1> QED
  BY <1>1, <1>4, <1>6, <1>8, <1>9, RefreshEnds

LEMMA RefreshFailsStep ==
    ASSUME BInv, NEW t \in Tabs, NEW c \in Slots, Refreshing(call[t][c]), RefreshFails(t, c)
    PROVE  BInv'
<1> DEFINE kinds == {call[t][d].kind : d \in Awaiting(t, c)}
           mid == Rejected(Cleared(tab[t]), kinds)
           set == [lock |-> FALSE]
           b == Assign(mid, set)
           new == [d \in Slots |-> IF d \in Awaiting(t, c) THEN Free ELSE call[t][d]]
<1>1. RestTyped
  BY RestIsTyped DEF RefreshFails, RestTyped
<1>2. CASE tab[t].user # NoUser
  <2>1. PageLoad(t)
    BY <1>2 DEF RefreshFails
  <2> QED
    BY <1>1, <2>1, PageLoadStep
<1>3. CASE tab[t].user = NoUser
  <2>1. tab[t].mounted /\ IsTab(tab[t])
    BY InFlightFacts DEF Refreshing
  <2>2. Alike(tab[t], mid)
    <3>1. Alike(tab[t], Cleared(tab[t]))
      BY <2>1, TabOperators
    <3>2. Alike(Cleared(tab[t]), mid)
      BY <3>1, RejectedType DEF Alike
    <3> QED
      BY <3>1, <3>2 DEF Alike
  <2>3. tab' = [tab EXCEPT ![t] = b] /\ call' = [call EXCEPT ![t] = new]
    BY <1>3 DEF RefreshFails
  <2>4. TabIs(t, b) /\ CallsAre(t, new)
    BY <2>3, TabWrites
  <2>5. IsTab(b) /\ b.mounted /\ ~b.lock
    <3>1. IsTab(mid) /\ mid.mounted
      BY <2>1, <2>2 DEF Alike
    <3>2. DOMAIN set = {"lock"} /\ set.lock = FALSE
      OBVIOUS
    <3> HIDE DEF set, mid
    <3> QED
      BY <3>1, <3>2, UnlockedTab
  <2> HIDE DEF b
  <2>6. DOMAIN new = Slots
        /\ \A d \in Slots : IF d \in Awaiting(t, c)
                            THEN IsGoodCall(new[d]) /\ ~Refreshing(new[d])
                            ELSE new[d] = call[t][d]
    BY FreeIsGood
  <2> HIDE DEF new
  <2> QED
    BY <1>1, <2>4, <2>5, <2>6, RefreshEnds
<1> QED
  BY <1>2, <1>3

LEMMA LostStep ==
    ASSUME BInv, NEW t \in Tabs, NEW c \in Slots, Lost(t, c)
    PROVE  BInv'
<1>1. CASE call[t][c].phase \in {"sent", "ok", "refused"} /\ Reject(t, c)
  BY <1>1, RejectStep DEF Refreshing
<1>2. CASE /\ call[t][c].phase \in {"refresh_sent", "refresh_ok", "refresh_refused"}
           /\ RefreshFails(t, c)
  BY <1>2, RefreshFailsStep DEF Refreshing
<1> QED
  BY <1>1, <1>2 DEF Lost

LEMMA ExpireStep ==
    ASSUME BInv, NEW t \in Tabs, Expire(t)
    PROVE  BInv'
<1> DEFINE b == [tab[t] EXCEPT !.fresh = FALSE]
<1>1. tab[t].mounted /\ IsTab(tab[t])
  BY MountedTab DEF Expire, BInv, IsGoodTab
<1>2. Alike(tab[t], b)
  BY <1>1, TabOperators
<1>3. tab' = [tab EXCEPT ![t] = b]
  BY DEF Expire
<1>4. RestTyped /\ UNCHANGED call
  BY RestIsTyped DEF Expire, RestTyped
<1> HIDE DEF b
<1> QED
  BY <1>1, <1>2, <1>3, <1>4, TabWrites, MemoryStep

LEMMA SocketChangesStep ==
    ASSUME BInv, NEW t \in Tabs, SocketChanges(t)
    PROVE  BInv'
<1> DEFINE b == [tab[t] EXCEPT !.socket.connected = ~@]
<1>1. tab[t].mounted /\ IsTab(tab[t])
  BY MountedTab DEF SocketChanges, BInv, IsGoodTab
<1>2. Alike(tab[t], b)
  BY <1>1, TabOperators
<1>3. tab' = [tab EXCEPT ![t] = b]
  BY DEF SocketChanges
<1>4. RestTyped /\ UNCHANGED call
  BY RestIsTyped DEF SocketChanges, RestTyped
<1> HIDE DEF b
<1> QED
  BY <1>1, <1>2, <1>3, <1>4, TabWrites, MemoryStep

LEMMA NextBInv == BInv /\ [Next]_vars => BInv'
<1> SUFFICES ASSUME BInv, [Next]_vars PROVE BInv'
  OBVIOUS
<1>1. ASSUME NEW t \in Tabs, NEW c \in Slots, Logout(t, c) \/ TimerFires(t, c)
      PROVE  BInv'
  <2>1. tab[t].mounted
    BY <1>1, MountedTab DEF Logout, TimerFires, BInv
  <2> QED
    BY <1>1, <2>1, SignOutStep DEF Logout, TimerFires
<1>2. ASSUME NEW t \in Tabs, NEW c \in Slots, Answer(t, c)
      PROVE  BInv'
  <2>1. CASE ServeLogin(t, c) \/ Serve(t, c) \/ ServeRefresh(t, c)
    BY <2>1, ServeLoginStep, ServeStep, ServeRefreshStep
  <2>2. CASE LoginAnswered(t, c) \/ ProfileAnswered(t, c) \/ OtherAnswered(t, c)
    BY <2>2, LoginAnsweredStep, ProfileAnsweredStep, OtherAnsweredStep
  <2>3. CASE Refused(t, c) \/ RefreshAnswered(t, c)
    BY <2>3, RefusedStep, RefreshAnsweredStep
  <2>4. CASE RefreshRefused(t, c)
    BY <2>4, RefreshFailsStep DEF RefreshRefused, Refreshing
  <2> QED
    BY <1>2, <2>1, <2>2, <2>3, <2>4 DEF Answer
<1>3. ASSUME NEW t \in Tabs, Reload(t)
      PROVE  BInv'
  <2>1. RestTyped
    BY <1>3, RestIsTyped DEF Reload, RestTyped
  <2> QED
    BY <1>3, <2>1, PageLoadStep DEF Reload
<1>4. ASSUME NEW u \in Users, Revoke(u)
      PROVE  BInv'
  <2>1. live' \in [Users -> Stamps \cup {0}]
    BY <1>4, RestIsTyped DEF Revoke
  <2> QED
    BY <1>4, <2>1 DEF Revoke, BInv
<1>5. CASE UNCHANGED vars
  BY <1>5 DEF vars, BInv
<1>6. ASSUME NEW t \in Tabs, NEW c \in Slots,
             SubmitLogin(t, c) \/ UsePage(t, c) \/ Lost(t, c)
      PROVE  BInv'
  BY <1>6, SubmitLoginStep, UsePageStep, LostStep
<1>7. ASSUME NEW t \in Tabs, Mount(t) \/ Expire(t) \/ SocketChanges(t)
      PROVE  BInv'
  BY <1>7, MountStep, ExpireStep, SocketChangesStep
<1> QED
  BY <1>1, <1>2, <1>3, <1>4, <1>5, <1>6, <1>7 DEF Next

-----------------------------------------------------------------------------
(* What holds for any number of tabs.                                      *)

LEMMA BrowserInvariant == Spec => []BInv
<1>1. Init => BInv
  BY InitBInv
<1>2. BInv /\ [Next]_vars => BInv'
  BY NextBInv
<1> QED
  BY <1>1, <1>2, PTL DEF Spec

\* The jar, the tabs' memory and the calls in flight hold tokens and users of
\* the right kind, and a token that counts as valid is there (api.js, tokenStore).
THEOREM BrowserTypeCorrect == Spec => []TypeOK
<1>1. BInv => TypeOK
  BY BInvTypes
<1> QED
  BY <1>1, BrowserInvariant, PTL

\* However many calls of a tab are refused at once, and whichever of them are
\* answered or lost in which order, one refresh is on its way at most, and the
\* lock is held exactly as long (api.js, _refreshing).
THEOREM OneRefresh == Spec => []OneRefreshPerTab
<1>1. BInv => OneRefreshPerTab
  BY BInvTypes
<1> QED
  BY <1>1, BrowserInvariant, PTL

-----------------------------------------------------------------------------
(* One tab: what a reload would restore is who is signed in.               *)

\* A call in flight in a tab on which "user" is signed in, over this cookie: only
\* the page's own calls are, and they refresh its session; a restored page will
\* show the cookie's user; a login is answered with its user's token.
CallFits(q, user, jar) ==
    q.phase # "free" =>
        /\ user # NoUser =>
              /\ q.kind = "api"
              /\ q.phase \in {"refresh_sent", "refresh_ok"} => q.refresh.user = user
        /\ q.kind = "profile" =>
              /\ q.header # NoUser => jar.user = q.header
              /\ q.phase = "ok" => q.header # NoUser
        /\ q.kind = "login" /\ q.phase = "ok" => q.refresh.user = q.user

\* The cookie and localStorage are those of who is signed in, and the expiry
\* timer runs for somebody.
UserFits(a, jar, stored) ==
    /\ a.user # NoUser => stored = a.user /\ jar.user = a.user
    /\ a.timer => a.user # NoUser

InUseAt(calls) == {c \in Slots : calls[c].phase # "free"}

\* While a page is being restored, it makes no other call.
RestoresAlone(calls) ==
    \A c, d \in InUseAt(calls) : calls[c].kind = "profile" => c = d

TabFits(a, calls, jar, stored) ==
    /\ UserFits(a, jar, stored)
    /\ \A c \in Slots : CallFits(calls[c], a.user, jar)
    /\ RestoresAlone(calls)

Fits(t) == TabFits(tab[t], call[t], cookie, storedUser)

LEMMA FreeFits == \A user, jar : CallFits(Free, user, jar)
  BY DEF CallFits, Free

\* The user and the timer of a tab after each operator on it.
LEMMA TabUsers ==
    ASSUME NEW a, IsTab(a)
    PROVE  /\ \A u \in Users : Having(a, u).user = a.user /\ Having(a, u).timer = a.timer
           /\ Cleared(a).user = a.user /\ Cleared(a).timer = a.timer
           /\ \A u \in Users \cup {NoUser} : SignedIn(a, u).user = u
           /\ SignedOut(a).user = NoUser /\ SignedOut(a).timer = a.timer
           /\ LET b == Assign(a, [timer |-> FALSE]) IN b.user = a.user /\ ~b.timer
<1>1. ASSUME NEW u \in Users
      PROVE  Having(a, u).user = a.user /\ Having(a, u).timer = a.timer
  BY AssignTab DEF Having
<1>2. Cleared(a).user = a.user /\ Cleared(a).timer = a.timer
  BY AssignTab DEF Cleared
<1>3. ASSUME NEW u \in Users \cup {NoUser} PROVE SignedIn(a, u).user = u
  BY AssignTab DEF SignedIn
<1>4. SignedOut(a).user = NoUser /\ SignedOut(a).timer = a.timer
  BY AssignTab DEF SignedOut
<1>5. LET b == Assign(a, [timer |-> FALSE]) IN b.user = a.user /\ ~b.timer
  BY AssignTab
<1> QED
  BY <1>1, <1>2, <1>3, <1>4, <1>5

\* An answered call is the call it was, but for its phase and its token.
LEMMA AnsweredFields ==
    ASSUME NEW q, IsGoodCall(q), q # Free, NEW phase, NEW set,
           DOMAIN set \subseteq {"refresh", "retried"}
    PROVE  LET new == AnsweredCall(q, phase, set) IN
           /\ new.phase = phase /\ new.kind = q.kind /\ new.user = q.user
           /\ new.header = q.header
           /\ "refresh" \in DOMAIN set => new.refresh = set.refresh
<1> DEFINE p == [f \in DOMAIN set \cup {"phase"} |-> IF f = "phase" THEN phase ELSE set[f]]
<1>1. DOMAIN q = {"phase", "kind", "user", "header", "retried", "refresh"}
  BY DEF IsGoodCall, IsCall
<1>2. DOMAIN p = DOMAIN set \cup {"phase"} /\ p.phase = phase
      /\ \A f \in DOMAIN set : f # "phase" => p[f] = set[f]
  OBVIOUS
<1>3. Assign(q, p) = [f \in DOMAIN q |-> IF f \in DOMAIN p THEN p[f] ELSE q[f]]
  BY DEF Assign
<1> HIDE DEF p
<1>4. LET new == Assign(q, p) IN
      /\ new.phase = phase /\ new.kind = q.kind /\ new.user = q.user
      /\ new.header = q.header
      /\ "refresh" \in DOMAIN set => new.refresh = set.refresh
  BY <1>1, <1>2, <1>3
<1> QED
  BY <1>4 DEF AnsweredCall, p

\* One slot of a tab is set, and nobody signs in.
LEMMA SlotFits ==
    ASSUME NEW a, NEW calls, DOMAIN calls = Slots, NEW jar, NEW stored,
           TabFits(a, calls, jar, stored),
           NEW b, NEW jar2, NEW stored2, UserFits(b, jar2, stored2),
           b.user \in {a.user, NoUser}, NEW c \in Slots,
           jar2 = jar \/ \A d \in InUseAt(calls) : calls[d].kind # "profile",
           NEW q, CallFits(q, b.user, jar2),
           \/ q.phase = "free"
           \/ c \in InUseAt(calls) /\ q.kind = calls[c].kind
           \/ q.kind # "profile" /\ \A d \in InUseAt(calls) : calls[d].kind # "profile"
    PROVE  TabFits(b, [calls EXCEPT ![c] = q], jar2, stored2)
<1> DEFINE new == [calls EXCEPT ![c] = q]
<1>1. \A d \in Slots : new[d] = IF d = c THEN q ELSE calls[d]
  OBVIOUS
<1> HIDE DEF new
<1>2. ASSUME NEW d \in Slots PROVE CallFits(new[d], b.user, jar2)
  <2>1. CASE d = c
    BY <1>1, <2>1
  <2>2. CASE d # c
    <3>1. new[d] = calls[d] /\ CallFits(calls[d], a.user, jar)
      BY <1>1, <2>2 DEF TabFits
    <3> QED
      BY <3>1 DEF CallFits, InUseAt
  <2> QED
    BY <2>1, <2>2
<1>3. RestoresAlone(new)
  BY <1>1 DEF TabFits, RestoresAlone, InUseAt
<1> QED
  BY <1>2, <1>3 DEF TabFits, new

\* The server answers a call.
LEMMA AnsweredFits ==
    ASSUME BInv, NEW t \in Tabs, Fits(t), NEW c \in Slots, call[t][c].phase # "free",
           NEW b, b.user = tab[t].user, b.timer = tab[t].timer, TabIs(t, b),
           UNCHANGED <<cookie, storedUser>>,
           NEW set, DOMAIN set \subseteq {"refresh", "retried"}, NEW phase,
           phase \in {"refresh_sent", "refresh_ok"} /\ tab[t].user # NoUser =>
               "refresh" \in DOMAIN set /\ set.refresh.user = tab[t].user,
           phase = "ok" /\ call[t][c].kind = "profile" => call[t][c].header # NoUser,
           phase = "ok" /\ call[t][c].kind = "login" =>
               "refresh" \in DOMAIN set /\ set.refresh.user = call[t][c].user,
           Answered(t, c, phase, set)
    PROVE  Fits(t)'
<1> DEFINE q == call[t][c]
           new == AnsweredCall(q, phase, set)
<1>1. IsGoodCall(q) /\ q # Free
  BY InFlightFacts
<1>2. /\ new.phase = phase /\ new.kind = q.kind /\ new.user = q.user /\ new.header = q.header
      /\ "refresh" \in DOMAIN set => new.refresh = set.refresh
  BY <1>1, AnsweredFields
<1>3. call' = With(t, c, new)
  BY DEF Answered, AnsweredCall
<1> HIDE DEF new
<1>4. CallFits(q, tab[t].user, cookie) /\ UserFits(b, cookie, storedUser)
  BY DEF Fits, TabFits, UserFits
<1>5. CallFits(new, b.user, cookie)
  BY <1>2, <1>4 DEF CallFits
<1>6. DOMAIN call[t] = Slots /\ c \in InUseAt(call[t])
  BY DEF BInv, IsGoodTab, InUseAt
<1>7. TabFits(b, [call[t] EXCEPT ![c] = new], cookie, storedUser)
  BY <1>2, <1>4, <1>5, <1>6, SlotFits DEF Fits
<1>8. call'[t] = [call[t] EXCEPT ![c] = new] /\ tab'[t] = b
  BY <1>3, TabWrites DEF CallsAre, TabIs
<1> QED
  BY <1>7, <1>8 DEF Fits

\* The server's steps, each kind of call in turn.
LEMMA ServeFits ==
    ASSUME BInv, NEW t \in Tabs, Fits(t), NEW c \in Slots,
           ServeLogin(t, c) \/ Serve(t, c) \/ ServeRefresh(t, c)
    PROVE  Fits(t)'
<1> DEFINE q == call[t][c]
<1>1. q.phase # "free" /\ UNCHANGED <<tab, cookie, storedUser>> /\ TabIs(t, tab[t])
  BY TabWrites DEF ServeLogin, Serve, ServeRefresh
<1>2. CallFits(q, tab[t].user, cookie)
  BY DEF Fits, TabFits
<1>3. ASSUME NEW u \in Users, NEW phase \in {"ok", "refresh_ok"}, Pair(t, c, phase, u),
             phase = "ok" => q.kind = "login" /\ u = q.user,
             phase = "refresh_ok" => q.phase = "refresh_sent" /\ u = q.refresh.user
      PROVE  Fits(t)'
  <2> DEFINE set == [refresh |-> Fresh(u)]
  <2>1. DOMAIN set = {"refresh"} /\ set.refresh.user = u
    BY FreshType
  <2>2. Answered(t, c, phase, set)
    BY <1>3 DEF Pair
  <2> HIDE DEF set
  <2>3. phase = "refresh_ok" /\ tab[t].user # NoUser => set.refresh.user = tab[t].user
    BY <1>1, <1>2, <1>3, <2>1 DEF CallFits
  <2> QED
    BY <1>1, <1>3, <2>1, <2>2, <2>3, AnsweredFits
<1>4. ASSUME NEW phase \in {"ok", "refused", "refresh_refused"}, Answered(t, c, phase, <<>>),
             phase = "ok" => q.kind # "login" /\ (q.kind = "profile" => q.header # NoUser)
      PROVE  Fits(t)'
  BY <1>1, <1>4, NothingSet, AnsweredFits
<1>5. CASE ServeLogin(t, c)
  <2>1. q.kind = "login" => q.user \in Users
    BY <1>1, InFlightFacts
  <2> QED
    BY <1>3, <1>4, <1>5, <2>1 DEF ServeLogin
<1>6. CASE Serve(t, c)
  <2>1. q.kind \in {"logout", "profile", "api"}
    BY <1>6 DEF Serve
  <2>2. PICK authentic \in Authentic(q) :
            Answered(t, c, IF authentic THEN "ok" ELSE "refused", <<>>)
    BY <1>6 DEF Serve
  <2>3. CASE authentic
    <3>1. q.header # NoUser
      BY <2>2, <2>3 DEF Authentic
    <3> QED
      BY <1>4, <2>1, <2>2, <2>3, <3>1
  <2>4. CASE ~authentic
    BY <1>4, <2>2, <2>4
  <2> QED
    BY <2>3, <2>4
<1>7. CASE ServeRefresh(t, c)
  <2>1. q.phase = "refresh_sent"
    BY <1>7 DEF ServeRefresh
  <2>2. CASE q.refresh # NoToken /\ Pair(t, c, "refresh_ok", q.refresh.user)
    <3>1. q.refresh.user \in Users
      BY <1>1, <2>2, InFlightFacts DEF MaybeToken, Tokens
    <3> QED
      BY <1>3, <2>1, <2>2, <3>1
  <2>3. CASE Answered(t, c, "refresh_refused", <<>>)
    BY <1>4, <2>3
  <2> QED
    BY <1>7, <2>2, <2>3 DEF ServeRefresh
<1> QED
  BY <1>5, <1>6, <1>7

\* Whatever a tab has in memory, nothing is wrong while nobody is signed in on
\* it and no call is in flight.
LEMMA EmptyFits ==
    ASSUME NEW b, b.user = NoUser, ~b.timer, NEW calls, \A c \in Slots : calls[c] = Free,
           NEW jar, NEW stored
    PROVE  TabFits(b, calls, jar, stored)
<1>1. InUseAt(calls) = {}
  BY DEF InUseAt, Free
<1> QED
  BY <1>1, FreeFits DEF TabFits, UserFits, RestoresAlone

LEMMA PageLoadFits ==
    ASSUME BInv, NEW t \in Tabs, PageLoad(t)
    PROVE  Fits(t)'
<1> DEFINE none == [c \in Slots |-> Free]
<1>1. tab'[t] = BlankTab /\ call'[t] = none
  BY TabWrites DEF PageLoad, TabIs, CallsAre
<1>2. BlankTab.user = NoUser /\ ~BlankTab.timer /\ \A c \in Slots : none[c] = Free
  BY DEF BlankTab
<1>3. TabFits(BlankTab, none, cookie', storedUser')
  BY <1>2, EmptyFits
<1> QED
  BY <1>1, <1>3 DEF Fits

\* A call is made, or one ends, and nobody signs in.
LEMMA CallFitsStep ==
    ASSUME BInv, NEW t \in Tabs, Fits(t), NEW c \in Slots, NEW q, call' = With(t, c, q),
           NEW b, TabIs(t, b), UserFits(b, cookie', storedUser'),
           b.user \in {tab[t].user, NoUser}, CallFits(q, b.user, cookie'),
           UNCHANGED cookie \/ \A d \in InUseAt(call[t]) : call[t][d].kind # "profile",
           \/ q.phase = "free"
           \/ q.kind # "profile" /\ \A d \in InUseAt(call[t]) : call[t][d].kind # "profile"
    PROVE  Fits(t)'
<1>1. DOMAIN call[t] = Slots
  BY DEF BInv, IsGoodTab
<1>2. TabFits(b, [call[t] EXCEPT ![c] = q], cookie', storedUser')
  BY <1>1, SlotFits DEF Fits
<1>3. CallsAre(t, [call[t] EXCEPT ![c] = q])
  BY TabWrites
<1> QED
  BY <1>2, <1>3 DEF Fits, CallsAre, TabIs

\* The person at the browser, the server and the answers, in turn.
LEMMA SubmitLoginFits ==
    ASSUME BInv, NEW t \in Tabs, Fits(t), NEW c \in Slots, SubmitLogin(t, c), LoginsAlone'
    PROVE  Fits(t)'
<1> DEFINE b == [tab[t] EXCEPT !.loading = TRUE]
<1>1. IsTab(tab[t]) /\ tab[t].user = NoUser /\ DOMAIN call[t] = Slots
  BY DEF SubmitLogin, BInv, IsGoodTab
<1>2. b.user = NoUser /\ b.timer = tab[t].timer
  BY <1>1 DEF IsTab
<1>3. tab' = [tab EXCEPT ![t] = b] /\ UNCHANGED <<cookie, storedUser>>
  BY DEF SubmitLogin
<1> HIDE DEF b
<1>4. TabIs(t, b) /\ UserFits(b, cookie', storedUser')
  BY <1>1, <1>2, <1>3, TabWrites DEF Fits, TabFits, UserFits
<1>5. PICK q : call' = With(t, c, q) /\ q.phase = "sent" /\ q.kind \in {"login", "mistyped"}
  <2>1. \A kind, user, header : LET q == Sent(kind, user, header) IN
            q.phase = "sent" /\ q.kind = kind
    BY DEF Sent
  <2>2. PICK kind, user, header :
            kind \in {"login", "mistyped"} /\ call' = With(t, c, Sent(kind, user, header))
    BY DEF SubmitLogin
  <2> QED
    BY <2>1, <2>2
<1>6. CallsAre(t, [call[t] EXCEPT ![c] = q])
  BY <1>5, TabWrites
<1>7. \A d \in InUseAt(call[t]) : call[t][d].kind # "profile"
  <2> SUFFICES ASSUME NEW d \in InUseAt(call[t]), call[t][d].kind = "profile"
               PROVE  FALSE
    OBVIOUS
  <2>1. call'[t][c] = q /\ d \in Slots
    BY <1>1, <1>6 DEF CallsAre, InUseAt
  <2>2. call[t][c] = Free
    BY DEF SubmitLogin
  <2>3. d # c
    BY <2>2 DEF InUseAt, Free
  <2>4. call'[t][d] = call[t][d]
    BY <1>1, <1>6, <2>1, <2>3 DEF CallsAre
  <2>5. call'[t][d] # Free /\ call'[t][c] # Free
    BY <1>5, <2>1, <2>4 DEF InUseAt, Free
  <2> QED
    BY <1>5, <2>1, <2>3, <2>5 DEF LoginsAlone
<1>8. CallFits(q, NoUser, cookie')
  BY <1>5 DEF CallFits
<1> QED
  BY <1>2, <1>3, <1>4, <1>5, <1>7, <1>8, CallFitsStep

\* While somebody is signed in, no page is being restored.
LEMMA NoProfile ==
    ASSUME NEW t \in Tabs, Fits(t), tab[t].user # NoUser
    PROVE  \A d \in InUseAt(call[t]) : call[t][d].kind = "api"
  BY DEF Fits, TabFits, CallFits, InUseAt

LEMMA UsePageFits ==
    ASSUME BInv, NEW t \in Tabs, Fits(t), NEW c \in Slots, UsePage(t, c)
    PROVE  Fits(t)'
<1> DEFINE q == Sent("api", NoUser, Header(tab[t]))
<1>1. q.phase = "sent" /\ q.kind = "api"
  BY DEF Sent
<1>2. call' = With(t, c, q) /\ tab[t].user # NoUser /\ UNCHANGED <<tab, cookie, storedUser>>
  BY DEF UsePage
<1> HIDE DEF q
<1>3. CallFits(q, tab[t].user, cookie')
  BY <1>1 DEF CallFits
<1>4. TabIs(t, tab[t]) /\ UserFits(tab[t], cookie', storedUser')
  BY <1>2, TabWrites DEF Fits, TabFits
<1> QED
  BY <1>1, <1>2, <1>3, <1>4, NoProfile, CallFitsStep

LEMMA SignOutFits ==
    ASSUME BInv, NEW t \in Tabs, Fits(t), NEW c \in Slots, SignOut(t, c), tab[t].user # NoUser
    PROVE  Fits(t)'
<1> DEFINE mid == SignedOut(Cleared(tab[t]))
           b == Assign(mid, [timer |-> FALSE])
           q == Sent("logout", NoUser, Header(tab'[t]))
<1>1. IsTab(tab[t])
  BY DEF BInv, IsGoodTab
<1>2. IsTab(Cleared(tab[t]))
  BY <1>1, TabOperators DEF Alike
<1>3. IsTab(mid) /\ mid.user = NoUser
  BY <1>2, TabOperators, TabUsers DEF Alike
<1>4. tab' = [tab EXCEPT ![t] = b] /\ call' = With(t, c, q) /\ UNCHANGED cookie
  BY DEF SignOut, BInv
<1> HIDE DEF mid
<1>5. b.user = NoUser /\ ~b.timer
  BY <1>3, TabUsers
<1>6. q.phase = "sent" /\ q.kind = "logout"
  BY DEF Sent
<1> HIDE DEF b, q
<1>7. TabIs(t, b) /\ UserFits(b, cookie', storedUser')
  BY <1>4, <1>5, TabWrites DEF UserFits
<1>8. CallFits(q, b.user, cookie')
  BY <1>5, <1>6 DEF CallFits
<1> QED
  BY <1>4, <1>5, <1>6, <1>7, <1>8, NoProfile, CallFitsStep

LEMMA MountFits ==
    ASSUME BInv, NEW t \in Tabs, Mount(t)
    PROVE  Fits(t)'
<1> DEFINE c == CHOOSE d \in Slots : TRUE
           q == Sent("profile", storedUser, Header(tab[t]))
           b == [tab[t] EXCEPT !.mounted = TRUE]
<1>1. IsGoodTab(tab[t], call[t]) /\ ~tab[t].mounted
  BY DEF Mount, BInv
<1>2. /\ tab[t] = BlankTab /\ DOMAIN call[t] = Slots
      /\ \A d \in Slots : call[t][d] = Free
  BY <1>1 DEF IsGoodTab
<1>3. b.user = NoUser /\ ~b.timer
  BY <1>2 DEF BlankTab
<1>4. tab' = [tab EXCEPT ![t] = b]
  BY DEF Mount
<1>5. q.phase = "sent" /\ q.kind = "profile" /\ q.header = NoUser
  BY <1>2 DEF Sent, Header, BlankTab
<1> HIDE DEF b, q, c
<1>6. TabIs(t, b)
  BY <1>4, TabWrites
<1>7. CASE UNCHANGED call
  <2>1. TabFits(b, call[t], cookie', storedUser')
    BY <1>2, <1>3, EmptyFits
  <2> QED
    BY <1>6, <1>7, <2>1, TabWrites DEF Fits, TabIs
<1>8. CASE call' = With(t, c, q)
  <2> DEFINE new == [call[t] EXCEPT ![c] = q]
  <2>1. \A d \in Slots : new[d] = IF d = c THEN q ELSE Free
    BY <1>2
  <2>2. CallsAre(t, new)
    BY <1>8, TabWrites
  <2> HIDE DEF new
  <2>3. \A d \in Slots : CallFits(new[d], b.user, cookie')
    BY <1>3, <1>5, <2>1, FreeFits DEF CallFits
  <2>4. RestoresAlone(new)
    BY <2>1 DEF RestoresAlone, InUseAt, Free
  <2>5. UserFits(b, cookie', storedUser')
    BY <1>3 DEF UserFits
  <2> QED
    BY <1>6, <2>2, <2>3, <2>4, <2>5 DEF Fits, TabFits, TabIs, CallsAre
<1> QED
  BY <1>7, <1>8 DEF Mount, c, q

LEMMA LoginAnsweredFits ==
    ASSUME BInv, LoginsAlone, NEW t \in Tabs, Fits(t), NEW c \in Slots, LoginAnswered(t, c)
    PROVE  Fits(t)'
<1> DEFINE q == call[t][c]
           mid == Having(tab[t], q.user)
           b == SignedIn(mid, q.user)
           new == [call[t] EXCEPT ![c] = Free]
<1>1. q.phase = "ok" /\ q.kind = "login"
  BY DEF LoginAnswered
<1>2. q.user \in Users /\ IsTab(tab[t]) /\ q # Free
  BY <1>1, InFlightFacts
<1>3. IsTab(mid)
  BY <1>2, TabOperators DEF Alike
<1> HIDE DEF mid
<1>4. b.user = q.user
  BY <1>2, <1>3, TabUsers
<1>5. TabIs(t, b) /\ CallsAre(t, new) /\ cookie' = q.refresh /\ storedUser' = q.user
  BY TabWrites DEF LoginAnswered, mid
<1> HIDE DEF b
<1>6. cookie'.user = q.user
  BY <1>1, <1>5 DEF Fits, TabFits, CallFits
<1>7. UserFits(b, cookie', storedUser')
  BY <1>2, <1>4, <1>5, <1>6, NoUserAssumption DEF UserFits
<1>8. \A d \in Slots : new[d] = Free
  <2> SUFFICES ASSUME NEW d \in Slots PROVE new[d] = Free
    OBVIOUS
  <2>1. DOMAIN call[t] = Slots
    BY DEF BInv, IsGoodTab
  <2>2. d # c => call[t][d] = Free
    BY <1>1, <1>2 DEF LoginsAlone
  <2> QED
    BY <2>1, <2>2
<1> HIDE DEF new
<1>9. RestoresAlone(new) /\ \A d \in Slots : CallFits(new[d], b.user, cookie')
  BY <1>8, FreeFits DEF RestoresAlone, InUseAt, Free
<1> QED
  BY <1>5, <1>7, <1>9 DEF Fits, TabFits, TabIs, CallsAre

LEMMA ProfileAnsweredFits ==
    ASSUME BInv, NEW t \in Tabs, Fits(t), NEW c \in Slots, ProfileAnswered(t, c)
    PROVE  Fits(t)'
<1> DEFINE q == call[t][c]
           b == SignedIn(tab[t], q.header)
           new == [call[t] EXCEPT ![c] = Free]
<1>1. q.phase = "ok" /\ q.kind = "profile" /\ UNCHANGED cookie
  BY DEF ProfileAnswered
<1>2. q.header \in Users /\ cookie.user = q.header /\ IsTab(tab[t])
  BY <1>1, InFlightFacts DEF Fits, TabFits, CallFits
<1>3. b.user = q.header
  BY <1>2, TabUsers
<1> HIDE DEF b
<1>4. CallsAre(t, new)
  BY TabWrites DEF ProfileAnswered
<1>5. \A d \in Slots : new[d].phase = "free"
  <2> SUFFICES ASSUME NEW d \in Slots PROVE new[d].phase = "free"
    OBVIOUS
  <2>1. DOMAIN call[t] = Slots
    BY DEF BInv, IsGoodTab
  <2>2. d # c => call[t][d].phase = "free"
    BY <1>1 DEF Fits, TabFits, RestoresAlone, InUseAt
  <2> QED
    BY <2>1, <2>2 DEF Free
<1> HIDE DEF new
<1>6. RestoresAlone(new) /\ \A d \in Slots : \A u : CallFits(new[d], u, cookie')
  BY <1>5 DEF RestoresAlone, InUseAt, CallFits
<1>7. CASE tab' = [tab EXCEPT ![t] = b] /\ storedUser' = q.header
  <2>1. TabIs(t, b)
    BY <1>7, TabWrites
  <2>2. UserFits(b, cookie', storedUser')
    BY <1>1, <1>2, <1>3, <1>7, NoUserAssumption DEF UserFits
  <2> QED
    BY <1>4, <1>6, <2>1, <2>2 DEF Fits, TabFits, TabIs, CallsAre
<1>8. CASE UNCHANGED <<tab, storedUser>>
  BY <1>1, <1>4, <1>6, <1>8 DEF Fits, TabFits, CallsAre
<1> QED
  BY <1>7, <1>8 DEF ProfileAnswered, b

LEMMA OtherAnsweredFits ==
    ASSUME BInv, NEW t \in Tabs, Fits(t), NEW c \in Slots, OtherAnswered(t, c)
    PROVE  Fits(t)'
<1> DEFINE q == call[t][c]
<1>1. /\ q.phase = "ok" /\ q.kind \in {"api", "logout"} /\ call' = With(t, c, Free)
      /\ UNCHANGED <<tab, storedUser>>
  BY DEF OtherAnswered
<1>2. c \in InUseAt(call[t])
  BY <1>1 DEF InUseAt
<1>3. TabIs(t, tab[t])
  BY <1>1, TabWrites
<1>4. Free.phase = "free" /\ CallFits(Free, tab[t].user, cookie')
  BY FreeFits DEF Free
<1>5. CASE q.kind = "api"
  <2>1. UNCHANGED cookie /\ UserFits(tab[t], cookie', storedUser')
    BY <1>1, <1>5 DEF OtherAnswered, Fits, TabFits
  <2> QED
    BY <1>1, <1>3, <1>4, <2>1, CallFitsStep
<1>6. CASE q.kind = "logout"
  <2>1. tab[t].user = NoUser
    BY <1>2, <1>6, NoProfile
  <2>2. UserFits(tab[t], cookie', storedUser')
    BY <2>1 DEF Fits, TabFits, UserFits
  <2>3. \A d \in InUseAt(call[t]) : call[t][d].kind # "profile"
    BY <1>2, <1>6 DEF Fits, TabFits, RestoresAlone
  <2> QED
    BY <1>1, <1>3, <1>4, <2>2, <2>3, CallFitsStep
<1> QED
  BY <1>1, <1>5, <1>6

LEMMA RejectFits ==
    ASSUME BInv, NEW t \in Tabs, Fits(t), NEW c \in Slots,
           call[t][c].phase # "free", Reject(t, c)
    PROVE  Fits(t)'
<1> DEFINE kind == call[t][c].kind
           b == Rejected(tab[t], {kind})
<1>1. IsTab(tab[t]) /\ c \in InUseAt(call[t])
  BY InFlightFacts DEF InUseAt
<1>2. call' = With(t, c, Free) /\ TabIs(t, b) /\ UNCHANGED cookie
  BY TabWrites DEF Reject
<1>3. /\ b = IF {kind} \cap {"login", "mistyped", "profile"} = {} THEN tab[t] ELSE SignedOut(tab[t])
      /\ storedUser' = IF "profile" \in {kind} THEN NoUser ELSE storedUser
  BY DEF Reject, Rejected, StoredAfter
<1>4. SignedOut(tab[t]).user = NoUser /\ SignedOut(tab[t]).timer = tab[t].timer
  BY <1>1, TabUsers
<1> HIDE DEF b
<1>5. tab[t].user # NoUser => kind = "api"
  BY <1>1, NoProfile
<1>6. b.user = tab[t].user /\ b.timer = tab[t].timer
  BY <1>3, <1>4, <1>5
<1>7. UserFits(b, cookie', storedUser')
  BY <1>2, <1>3, <1>5, <1>6 DEF Fits, TabFits, UserFits
<1>8. Free.phase = "free" /\ CallFits(Free, b.user, cookie')
  BY FreeFits DEF Free
<1> QED
  BY <1>2, <1>6, <1>7, <1>8, CallFitsStep

LEMMA RefusedFits ==
    ASSUME BInv, NEW t \in Tabs, Fits(t), NEW c \in Slots, Refused(t, c)
    PROVE  Fits(t)'
<1>1. call[t][c].phase # "free" /\ IsTab(tab[t])
  BY InFlightFacts DEF Refused
<1>2. CASE Reject(t, c)
  BY <1>1, <1>2, RejectFits
<1>3. CASE ~Reject(t, c)
  <2> DEFINE b == [tab[t] EXCEPT !.lock = TRUE]
             first == [refresh |-> cookie, retried |-> TRUE]
             later == [retried |-> TRUE]
  <2>1. b.user = tab[t].user /\ b.timer = tab[t].timer
    BY <1>1 DEF IsTab
  <2>2. tab' = [tab EXCEPT ![t] = b] /\ UNCHANGED <<cookie, storedUser>>
    BY <1>3 DEF Refused
  <2>3. Answered(t, c, "refresh_sent", first) \/ Answered(t, c, "waiting", later)
    BY <1>3 DEF Refused
  <2>4. DOMAIN first = {"refresh", "retried"} /\ first.refresh = cookie
        /\ DOMAIN later = {"retried"}
    OBVIOUS
  <2>5. tab[t].user # NoUser => cookie.user = tab[t].user
    BY DEF Fits, TabFits, UserFits
  <2> HIDE DEF b, first, later
  <2>6. TabIs(t, b)
    BY <2>2, TabWrites
  <2>7. CASE Answered(t, c, "refresh_sent", first)
    BY <1>1, <2>1, <2>2, <2>4, <2>5, <2>6, <2>7, AnsweredFits
  <2>8. CASE Answered(t, c, "waiting", later)
    BY <1>1, <2>1, <2>2, <2>4, <2>6, <2>8, AnsweredFits
  <2> QED
    BY <2>3, <2>7, <2>8
<1> QED
  BY <1>2, <1>3

\* A refresh comes back: the cookie is of the user whose session it was.
LEMMA RefreshAnsweredFits ==
    ASSUME BInv, NEW t \in Tabs, Fits(t), NEW c \in Slots, RefreshAnswered(t, c)
    PROVE  Fits(t)'
<1> DEFINE q == call[t][c]
           user == q.refresh.user
           mid == Having(tab[t], user)
           set == [lock |-> FALSE, socket |-> Connect(tab[t].socket, user)]
           b == Assign(mid, set)
           resent == [phase |-> "sent", header |-> user, refresh |-> NoToken]
           again(d) == Assign(call[t][d], resent)
           new == [d \in Slots |-> IF d \in Awaiting(t, c) THEN again(d) ELSE call[t][d]]
<1>1. q.phase = "refresh_ok" /\ q.phase # "free" /\ UNCHANGED storedUser /\ cookie' = q.refresh
  BY DEF RefreshAnswered
<1>2. IsTab(tab[t]) /\ user \in Users /\ q.kind \in {"login", "mistyped", "logout", "profile", "api"}
  BY <1>1, InFlightFacts DEF Tokens
<1>3. DOMAIN set = {"lock", "socket"} /\ set.lock = FALSE /\ IsSocket(set.socket)
  BY <1>2 DEF IsTab, IsSocket, Connect
<1>4. IsTab(mid) /\ mid.user = tab[t].user /\ mid.timer = tab[t].timer
  BY <1>2, TabOperators, TabUsers DEF Alike
<1>5. TabIs(t, b) /\ CallsAre(t, new)
  BY TabWrites DEF RefreshAnswered
<1> HIDE DEF mid, set
<1>6. b.user = tab[t].user /\ b.timer = tab[t].timer
  BY <1>3, <1>4, UnlockedTab
<1>7. ASSUME NEW d \in Slots, d \in Awaiting(t, c)
      PROVE  /\ again(d).phase = "sent" /\ again(d).kind = call[t][d].kind
             /\ again(d).header = user /\ d \in InUseAt(call[t])
  <2>1. call[t][d].phase # "free"
    BY <1>1, <1>7 DEF Awaiting
  <2>2. DOMAIN call[t][d] = {"phase", "kind", "user", "header", "retried", "refresh"}
    BY <2>1, InFlightFacts DEF IsGoodCall, IsCall
  <2> QED
    BY <2>1, <2>2 DEF Assign, InUseAt
<1> HIDE DEF b, again
<1>8. \A d \in Slots : new[d] = IF d \in Awaiting(t, c) THEN again(d) ELSE call[t][d]
  OBVIOUS
<1> HIDE DEF new
<1>9. c \in InUseAt(call[t]) /\ c \in Awaiting(t, c)
  BY <1>1 DEF InUseAt, Awaiting
<1>10. tab[t].user # NoUser => cookie'.user = tab[t].user
  BY <1>1 DEF Fits, TabFits, CallFits
<1>11. UserFits(b, cookie', storedUser')
  BY <1>1, <1>6, <1>10 DEF Fits, TabFits, UserFits
<1>12. ASSUME NEW d \in Slots PROVE CallFits(new[d], b.user, cookie')
  <2>1. CallFits(call[t][d], tab[t].user, cookie)
    BY DEF Fits, TabFits
  <2>2. CASE d \in Awaiting(t, c)
    <3>1. new[d] = again(d) /\ new[d].phase = "sent" /\ new[d].kind = call[t][d].kind
          /\ new[d].header = user /\ call[t][d].phase # "free"
      BY <1>7, <1>8, <2>2 DEF InUseAt
    <3> QED
      BY <1>1, <1>6, <2>1, <3>1 DEF CallFits
  <2>3. CASE d \notin Awaiting(t, c)
    <3>1. new[d] = call[t][d] /\ d # c
      BY <1>8, <1>9, <2>3
    <3>2. ~(call[t][d].phase # "free" /\ call[t][d].kind = "profile")
      BY <1>9, <3>1 DEF Fits, TabFits, RestoresAlone, InUseAt
    <3> QED
      BY <1>6, <2>1, <3>1, <3>2 DEF CallFits
  <2> QED
    BY <2>2, <2>3
<1>13. RestoresAlone(new)
  <2>1. \A d \in InUseAt(new) : d \in InUseAt(call[t]) /\ new[d].kind = call[t][d].kind
    BY <1>7, <1>8 DEF InUseAt
  <2> QED
    BY <2>1 DEF Fits, TabFits, RestoresAlone
<1> QED
  BY <1>5, <1>11, <1>12, <1>13 DEF Fits, TabFits, TabIs, CallsAre

LEMMA RefreshFailsFits ==
    ASSUME BInv, NEW t \in Tabs, Fits(t), NEW c \in Slots,
           Refreshing(call[t][c]), RefreshFails(t, c)
    PROVE  Fits(t)'
<1> DEFINE kinds == {call[t][d].kind : d \in Awaiting(t, c)}
           mid == Rejected(Cleared(tab[t]), kinds)
           set == [lock |-> FALSE]
           b == Assign(mid, set)
           new == [d \in Slots |-> IF d \in Awaiting(t, c) THEN Free ELSE call[t][d]]
<1>1. CASE tab[t].user # NoUser
  BY <1>1, PageLoadFits DEF RefreshFails
<1>2. CASE tab[t].user = NoUser
  <2>1. IsTab(tab[t]) /\ ~tab[t].timer
    BY <1>2 DEF BInv, IsGoodTab, IsTab, Fits, TabFits, UserFits
  <2>2. /\ IsTab(Cleared(tab[t])) /\ Cleared(tab[t]).user = NoUser
        /\ ~Cleared(tab[t]).timer
    BY <1>2, <2>1, TabOperators, TabUsers DEF Alike
  <2>3. IsTab(mid) /\ mid.user = NoUser /\ ~mid.timer
    BY <2>2, RejectedType, TabUsers DEF Rejected, Alike
  <2>4. DOMAIN set = {"lock"} /\ set.lock = FALSE
    OBVIOUS
  <2>5. TabIs(t, b) /\ CallsAre(t, new) /\ UNCHANGED cookie
    BY <1>2, TabWrites DEF RefreshFails
  <2> HIDE DEF set, mid
  <2>6. b.user = NoUser /\ ~b.timer
    BY <2>3, <2>4, UnlockedTab
  <2> HIDE DEF b
  <2>7. \A d \in Slots : new[d] \in {Free, call[t][d]}
    OBVIOUS
  <2> HIDE DEF new
  <2>8. ASSUME NEW d \in Slots PROVE CallFits(new[d], b.user, cookie')
    BY <1>2, <2>5, <2>6, <2>7, FreeFits DEF Fits, TabFits
  <2>9. RestoresAlone(new)
    BY <2>7 DEF Fits, TabFits, RestoresAlone, InUseAt, Free
  <2>10. UserFits(b, cookie', storedUser')
    BY <2>6 DEF UserFits
  <2> QED
    BY <2>5, <2>8, <2>9, <2>10 DEF Fits, TabFits, TabIs, CallsAre
<1> QED
  BY <1>1, <1>2

\* What else happens in a tab leaves its user and its calls alone.
LEMMA RestFits ==
    ASSUME BInv, NEW t \in Tabs, Fits(t),
           Expire(t) \/ SocketChanges(t) \/ (\E u \in Users : Revoke(u)) \/ UNCHANGED vars
    PROVE  Fits(t)'
<1>1. CASE Expire(t) \/ SocketChanges(t)
  <2>1. IsTab(tab[t])
    BY DEF BInv, IsGoodTab
  <2>2. tab'[t].user = tab[t].user /\ tab'[t].timer = tab[t].timer
        /\ UNCHANGED <<call, cookie, storedUser>>
    BY <1>1, <2>1 DEF Expire, SocketChanges, BInv, IsTab
  <2> QED
    BY <2>2 DEF Fits, TabFits, UserFits
<1>2. CASE (\E u \in Users : Revoke(u)) \/ UNCHANGED vars
  BY <1>2 DEF Revoke, vars, Fits
<1> QED
  BY <1>1, <1>2

ReloadInv == BInv /\ \A t \in Tabs : Fits(t)

LEMMA InitFits == Init => \A t \in Tabs : Fits(t)
<1> SUFFICES ASSUME Init, NEW t \in Tabs PROVE Fits(t)
  OBVIOUS
<1>1. tab[t] = BlankTab /\ \A c \in Slots : call[t][c] = Free
  BY DEF Init
<1> QED
  BY <1>1, EmptyFits DEF Fits, BlankTab

LEMMA NextFits ==
    ASSUME ReloadInv, \A s, t \in Tabs : s = t, LoginsAlone, LoginsAlone', [Next]_vars
    PROVE  ReloadInv'
<1> SUFFICES ASSUME NEW t \in Tabs PROVE Fits(t)'
  BY NextBInv DEF ReloadInv
<1>1. BInv /\ Fits(t)
  BY DEF ReloadInv
<1>2. ASSUME NEW c \in Slots, SubmitLogin(t, c) \/ UsePage(t, c)
      PROVE  Fits(t)'
  BY <1>1, <1>2, SubmitLoginFits, UsePageFits
<1>3. ASSUME NEW c \in Slots, Logout(t, c) \/ TimerFires(t, c)
      PROVE  Fits(t)'
  <2>1. tab[t].user # NoUser /\ SignOut(t, c)
    BY <1>1, <1>3 DEF Logout, TimerFires, Fits, TabFits, UserFits
  <2> QED
    BY <1>1, <2>1, SignOutFits
<1>4. ASSUME NEW c \in Slots, Answer(t, c)
      PROVE  Fits(t)'
  <2>1. CASE ServeLogin(t, c) \/ Serve(t, c) \/ ServeRefresh(t, c)
    BY <1>1, <2>1, ServeFits
  <2>2. CASE LoginAnswered(t, c) \/ ProfileAnswered(t, c) \/ OtherAnswered(t, c)
    BY <1>1, <2>2, LoginAnsweredFits, ProfileAnsweredFits, OtherAnsweredFits
  <2>3. CASE Refused(t, c) \/ RefreshAnswered(t, c)
    BY <1>1, <2>3, RefusedFits, RefreshAnsweredFits
  <2>4. CASE RefreshRefused(t, c)
    BY <1>1, <2>4, RefreshFailsFits DEF RefreshRefused, Refreshing
  <2> QED
    BY <1>4, <2>1, <2>2, <2>3, <2>4 DEF Answer
<1>5. ASSUME NEW c \in Slots, Lost(t, c)
      PROVE  Fits(t)'
  BY <1>1, <1>5, RejectFits, RefreshFailsFits DEF Lost, Refreshing
<1>6. CASE Reload(t) \/ Mount(t)
  BY <1>1, <1>6, PageLoadFits, MountFits DEF Reload
<1>7. CASE Expire(t) \/ SocketChanges(t) \/ (\E u \in Users : Revoke(u)) \/ UNCHANGED vars
  BY <1>1, <1>7, RestFits
<1> QED
  BY <1>2, <1>3, <1>4, <1>5, <1>6, <1>7 DEF Next

\* In a browser with one tab, in which logins are submitted when nothing else is
\* under way, a reload restores who is signed in: localStorage and the cookie
\* both have that user, in whichever order a restored page, refreshes, logouts
\* and the page's own calls are answered or lost (auth.service.js,
\* auth.context.jsx).
THEOREM ReloadRestores ==
    ASSUME \A s, t \in Tabs : s = t
    PROVE  Spec /\ []LoginsAlone => []ReloadKeepsTheUser
<1>1. Init => ReloadInv
  BY InitBInv, InitFits DEF ReloadInv
<1>2. ReloadInv /\ LoginsAlone /\ LoginsAlone' /\ [Next]_vars => ReloadInv'
  BY NextFits
<1>3. ReloadInv => ReloadKeepsTheUser
  BY DEF ReloadInv, Fits, TabFits, UserFits, ReloadKeepsTheUser
<1> QED
  BY <1>1, <1>2, <1>3, PTL DEF Spec

=============================================================================
