--------------------------- MODULE SessionsProofs ---------------------------
(***************************************************************************)
(* Sign-in, proved: for any number of clients, proxies, requests, tokens   *)
(* and credentials, any header a client may forge, any limits, restarts    *)
(* and store faults.                                                       *)
(***************************************************************************)
EXTENDS Sessions, FiniteSetTheorems, SequenceTheorems, TLAPS

USE ConstantsAssumption
USE DEF vars, tally, memory, logins, history

-----------------------------------------------------------------------------
(* Whose request is it?                                                    *)

\* A request that reaches the server directly comes from its peer; one that
\* comes over our proxies carries its sender as the last address in
\* X-Forwarded-For that is not a proxy of ours.
LEMMA ClientIPIsSender ==
    ASSUME NEW c \in Client, NEW f \in Forgery, NEW p \in Route, NEW real
    PROVE  ClientIP(Arriving(c, f, p, real)) = c
<1> DEFINE path == <<c>> \o p
           n == Len(path)
           r == Arriving(c, f, p, real)
<1>1. /\ p \in Seq(Proxy) /\ f \in Seq(Client \cup Proxy \cup {None})
      /\ Len(p) \in Nat /\ Len(f) \in Nat
  OBVIOUS
<1>2. /\ n = 1 + Len(p) /\ path \in Seq(Client \cup Proxy)
      /\ path[1] = c /\ \A i \in 2..n : path[i] \in Proxy
  BY <1>1
<1>3. CASE Len(p) = 0
  <2>1. r.peer = c
    BY <1>2, <1>3 DEF Arriving
  <2>2. QED BY <2>1 DEF ClientIP
<1>4. CASE Len(p) # 0
  <2> DEFINE own == SubSeq(path, 1, n - 1)
             ff == f \o own
             hops == {i \in DOMAIN ff : ff[i] \in Client}
  <2>1. n > 1 /\ r.peer = path[n] /\ r.forwardedFor = ff
    BY <1>1, <1>2, <1>4 DEF Arriving
  <2>2. r.peer \in Proxy
    BY <1>1, <1>2, <2>1
  <2>3. /\ own \in Seq(Client \cup Proxy) /\ Len(own) = n - 1
        /\ \A i \in 1..(n - 1) : own[i] = path[i]
    BY <1>1, <1>2, <2>1
  <2>4. /\ ff \in Seq(Client \cup Proxy \cup {None}) /\ Len(ff) = Len(f) + (n - 1)
        /\ ff[Len(f) + 1] = c
        /\ \A i \in (Len(f) + 2)..Len(ff) : ff[i] \in Proxy
    <3> HIDE DEF own, path, n
    <3>1. own \in Seq(Client \cup Proxy \cup {None})
      BY <2>3
    <3>2. /\ ff \in Seq(Client \cup Proxy \cup {None}) /\ Len(ff) = Len(f) + (n - 1)
          /\ \A i \in 1..Len(ff) : ff[i] = IF i <= Len(f) THEN f[i] ELSE own[i - Len(f)]
      <4>1. /\ ff \in Seq(Client \cup Proxy \cup {None}) /\ Len(ff) = Len(f) + Len(own)
            /\ \A i \in 1..(Len(f) + Len(own)) : ff[i] = IF i <= Len(f) THEN f[i] ELSE own[i - Len(f)]
        BY <1>1, <3>1, ConcatProperties, Zenon
      <4>2. QED BY <2>3, <4>1
    <3>3. n \in Nat
      BY <1>1, <1>2
    <3> HIDE DEF ff
    <3>4. ff[Len(f) + 1] = own[1] /\ own[1] = c
      <4>1. Len(f) + 1 \in 1..Len(ff) /\ ~(Len(f) + 1 <= Len(f)) /\ (Len(f) + 1) - Len(f) = 1 /\ 1 \in 1..(n - 1)
        BY <1>1, <2>1, <3>2, <3>3
      <4>2. QED BY <1>2, <2>3, <3>2, <4>1
    <3>5. ASSUME NEW i \in (Len(f) + 2)..Len(ff) PROVE ff[i] \in Proxy
      <4>1. /\ i \in 1..Len(ff) /\ ~(i <= Len(f))
            /\ i - Len(f) \in 1..(n - 1) /\ i - Len(f) \in 2..n
        BY <1>1, <3>2, <3>3
      <4>2. QED BY <1>2, <2>3, <3>2, <4>1
    <3>6. QED BY <3>2, <3>4, <3>5
  <2>5. Len(f) + 1 \in hops /\ \A i \in hops : i <= Len(f) + 1
    <3> HIDE DEF ff, n
    <3>1. DOMAIN ff = 1..Len(ff)
      BY <2>4
    <3>2. n \in Nat
      BY <1>1, <1>2
    <3>3. QED BY <1>1, <2>1, <2>4, <3>1, <3>2
  <2>6. (CHOOSE i \in hops : \A k \in hops : k <= i) = Len(f) + 1
    <3> HIDE DEF ff
    <3>1. hops \subseteq Nat
      BY <2>4
    <3> HIDE DEF hops
    <3>2. \A i \in hops : (\A k \in hops : k <= i) => i = Len(f) + 1
      BY <1>1, <2>5, <3>1
    <3>3. QED BY <2>5, <3>2
  <2>7. ClientIP(r) = ff[Len(f) + 1]
    <3> HIDE DEF r, ff
    <3>1. hops # {}
      BY <2>5
    <3>2. QED BY <2>1, <2>2, <2>6, <3>1 DEF ClientIP
  <2>8. QED BY <2>4, <2>7
<1>5. QED BY <1>1, <1>3, <1>4

\* The addresses a client is seen as: its own.
LEMMA SeenAsSelf == \A c \in Client : \A a \in SeenAs[c] : a = c
BY ClientIPIsSender DEF SeenAs

-----------------------------------------------------------------------------
(* Types                                                                   *)

\* A window that counts nothing is no window.
LEMMA CounterFacts ==
    /\ NoFailures \in Counter /\ NoFailures.count = 0 /\ NoFailures.first = 0
    /\ \A f \in Counter : /\ f.count \in Nat /\ f.first \in Nat
                          /\ f = [count |-> f.count, first |-> f.first]
                          /\ f.count = 0 => f = NoFailures
    /\ \A n \in Nat \ {0}, m \in Nat : [count |-> n, first |-> m] \in Counter
BY DEF NoFailures, Counter

\* The windows of the limiter are counters, rolled and counted up.
LEMMA CounterTypes ==
    ASSUME now \in Nat, NEW f \in Counter, NEW w \in Nat
    PROVE  /\ Rolled(f, w) \in Counter /\ Rolled(f, w).count <= f.count
           /\ Counted(f, w) \in Counter /\ Counted(f, w).count <= f.count + 1
           /\ NoFailures \in Counter
<1>1. /\ NoFailures \in Counter /\ NoFailures.count = 0 /\ f.count \in Nat /\ f.first \in Nat
      /\ f = [count |-> f.count, first |-> f.first]
  BY CounterFacts
<1>2. Rolled(f, w) = NoFailures \/ Rolled(f, w) = f
  BY DEF Rolled
<1>3. PICK n \in {1, f.count + 1}, m \in Nat : Counted(f, w) = [count |-> n, first |-> m]
  BY <1>1 DEF Counted
<1>4. n \in Nat \ {0} /\ n <= f.count + 1
  BY <1>1, <1>3
<1>5. Counted(f, w) \in Counter /\ Counted(f, w).count <= f.count + 1
  BY <1>3, <1>4, CounterFacts
<1>6. QED BY <1>1, <1>2, <1>5

\* A failed login adds to the tally of its address, and empties the windows of
\* others at most.
LEMMA RecordFailureFacts ==
    ASSUME TypeOK, NEW a \in Client, RecordFailure(a)
    PROVE  /\ failures' \in [Client -> Counter] /\ global' = Counted(global, GlobalFailWindow)
           /\ tried' = [tried EXCEPT ![a] = Counted(tried[a], FailWindow)]
           /\ \A b \in Client \ {a} : failures'[b] \in {failures[b], Rolled(failures[b], FailWindow)}
           /\ \/ untracked' = untracked \cup {a}
              \/ /\ untracked' = untracked
                 /\ failures'[a] \in {Counted(failures[a], FailWindow),
                                      Counted(Rolled(failures[a], FailWindow), FailWindow)}
<1> DEFINE fs == IF Full(failures, a) THEN Pruned(failures) ELSE failures
<1>1. now \in Nat /\ failures \in [Client -> Counter] /\ tried \in [Client -> Counter]
  BY DEF TypeOK
<1>2. fs \in [Client -> Counter] /\ \A b \in Client : fs[b] \in {failures[b], Rolled(failures[b], FailWindow)}
  <2>1. Pruned(failures) = [b \in Client |-> Rolled(failures[b], FailWindow)]
    BY <1>1 DEF Pruned
  <2>2. \A b \in Client : Rolled(failures[b], FailWindow) \in Counter
    BY <1>1, CounterTypes
  <2>3. QED BY <1>1, <2>1, <2>2
<1>3. /\ global' = Counted(global, GlobalFailWindow)
      /\ tried' = [tried EXCEPT ![a] = Counted(tried[a], FailWindow)]
      /\ \/ untracked' = untracked \cup {a} /\ failures' = fs
         \/ untracked' = untracked /\ failures' = [fs EXCEPT ![a] = Counted(fs[a], FailWindow)]
  BY <1>1, <1>2 DEF RecordFailure
<1> HIDE DEF fs
<1>4. Counted(fs[a], FailWindow) \in Counter
  BY <1>1, <1>2, CounterTypes
<1>5. failures' \in [Client -> Counter] /\ \A b \in Client \ {a} : failures'[b] = fs[b]
  BY <1>2, <1>3, <1>4
<1>6. untracked' = untracked \cup {a} \/ (untracked' = untracked /\ failures'[a] = Counted(fs[a], FailWindow))
  BY <1>2, <1>3
<1>7. fs[a] = failures[a] \/ fs[a] = Rolled(failures[a], FailWindow)
  BY <1>2
<1>8. /\ \A b \in Client \ {a} : failures'[b] \in {failures[b], Rolled(failures[b], FailWindow)}
      /\ \/ untracked' = untracked \cup {a}
         \/ /\ untracked' = untracked
            /\ failures'[a] \in {Counted(failures[a], FailWindow),
                                 Counted(Rolled(failures[a], FailWindow), FailWindow)}
  BY <1>2, <1>5, <1>6, <1>7
<1>9. QED BY <1>3, <1>5, <1>8

\* One element more.
LEMMA OneMore ==
    ASSUME NEW S, IsFiniteSet(S), NEW x
    PROVE  Cardinality(S \cup {x}) \in {Cardinality(S), Cardinality(S) + 1}
BY FS_AddElement

\* The hash slots in use after a step that adds none.
LEMMA SlotsFreed ==
    ASSUME TypeOK, \A r \in Request : pc'[r] = "hashing" => pc[r] = "hashing"
    PROVE  Cardinality(Hashing)' <= HashSlots
<1>1. Hashing' \subseteq Hashing /\ Hashing \in SUBSET Request
  BY DEF Hashing
<1>2. IsFiniteSet(Hashing) /\ Cardinality(Hashing)' <= Cardinality(Hashing)
  BY <1>1, FS_Subset
<1>3. Cardinality(Hashing)' \in Nat /\ Cardinality(Hashing) \in Nat
  BY <1>1, <1>2, FS_Subset, FS_CardinalityType
<1>4. QED BY <1>2, <1>3 DEF TypeOK

\* Every step keeps the types, and hashes at most HashSlots passwords at a time.
LEMMA TypeStep == TypeOK /\ [Next]_vars => TypeOK'
<1> SUFFICES ASSUME TypeOK, [Next]_vars PROVE TypeOK'
  OBVIOUS
<1>t. /\ now \in Nat /\ now # 0 /\ table \in [Token -> Nat] /\ sessions \in [Token -> Nat]
      /\ failures \in [Client -> Counter] /\ global \in Counter
      /\ Empty \in [Token -> Nat] /\ NoFailures \in Counter /\ Live(table) \in [Token -> Nat]
      /\ faults \in Nat
  BY DEF TypeOK, Empty, NoSession, Live, NoFailures, Counter
<1>f. \A failed \in BOOLEAN : Fault(failed) => faults' \in Nat
  BY <1>t DEF Fault
<1>p. Pruned(failures) \in [Client -> Counter]
  <2>1. \A b \in Client : Rolled(failures[b], FailWindow) \in Counter
    BY <1>t, CounterTypes
  <2>2. QED BY <1>t, <2>1 DEF Pruned
<1>1. CASE Tick
  <2>1. Cardinality(Hashing)' <= HashSlots
    BY <1>1, SlotsFreed DEF Tick
  <2>2. tried' \in [Client -> Counter] /\ untracked' \subseteq Client
    BY <1>1, <1>t DEF Tick, TypeOK
  <2>3. QED BY <1>1, <2>1, <2>2 DEF Tick, TypeOK
<1>2. CASE Stop
  <2>1. Cardinality(Hashing)' <= HashSlots
    BY <1>2, SlotsFreed DEF Stop, Idle
  <2>2. QED BY <1>2, <1>t, <2>1 DEF Stop, Idle, TypeOK
<1>3. CASE Reap
  <2>1. Cardinality(Hashing)' <= HashSlots
    BY <1>3, SlotsFreed DEF Reap
  <2>2. sessions' \in [Token -> Nat] /\ table' \in [Token -> Nat] /\ failures' \in [Client -> Counter]
    BY <1>3, <1>t, <1>p DEF Reap, NoSession
  <2>3. QED BY <1>3, <2>1, <2>2 DEF Reap, TypeOK
<1>4. ASSUME NEW c \in Credential, Boot(c) PROVE TypeOK'
  <2>1. Cardinality(Hashing)' <= HashSlots
    BY <1>4, SlotsFreed DEF Boot
  <2>2. Rebind(c) \in [Token -> Nat] /\ Live(Rebind(c)) \in [Token -> Nat]
    BY <1>t DEF Rebind, Live, NoSession
  <2>3. /\ table' \in [Token -> Nat] /\ sessions' \in [Token -> Nat]
        /\ bound' \in Credential \cup {None}
        /\ faults' \in Nat /\ owed' \subseteq Token
    <3>1. CASE Fault(FALSE) /\ bound' = c /\ table' = Live(Rebind(c)) /\ sessions' = table' /\ owed' \in {owed, {}}
      BY <1>f, <2>2, <3>1 DEF TypeOK
    <3>2. CASE Fault(TRUE) /\ owed' = {} /\ bound' = bound /\ table' = table /\ sessions' = Empty
      BY <1>f, <1>t, <3>2 DEF TypeOK
    <3>3. CASE Fault(TRUE) /\ owed' = {} /\ bound' = c /\ table' = Rebind(c) /\ sessions' \in {Empty, Live(Rebind(c))}
      BY <1>f, <1>t, <2>2, <3>3 DEF TypeOK
    <3>4. QED
      <4>1. sessions' \in {Empty, Live(table')} /\ table' = Rebind(c) => sessions' \in {Empty, Live(Rebind(c))}
        BY DEF Live
      <4>2. QED BY <1>4, <3>1, <3>2, <3>3, <4>1 DEF Boot
  <2>4. QED BY <1>4, <2>1, <2>3 DEF Boot, TypeOK
<1>5. ASSUME NEW r \in Request, Login(r) \/ TakeSlot(r) \/ Shed(r) \/ Fail(r) \/ Refuse(r) \/ Issue(r) \/ Save(r)
      PROVE TypeOK'
  <2>1. CASE Login(r)
    <3>1. PICK c, a :
            /\ c \in Client /\ a \in SeenAs[c]
            /\ \/ UNCHANGED logins
               \/ /\ pc' = [pc EXCEPT ![r] = "waiting"] /\ tok' = tok
                  /\ from' = [from EXCEPT ![r] = c] /\ ip' = [ip EXCEPT ![r] = a]
            /\ failures' = failures \/ failures' = [failures EXCEPT ![a] = Rolled(failures[a], FailWindow)]
      BY <2>1 DEF Login
    <3>2. a = c /\ c \in Client
      BY <3>1, SeenAsSelf
    <3>3. Rolled(failures[a], FailWindow) \in Counter /\ Rolled(global, GlobalFailWindow) \in Counter
      BY <1>t, <3>2, CounterTypes
    <3>4. failures' \in [Client -> Counter] /\ global' \in Counter
      <4>1. global' = Rolled(global, GlobalFailWindow)
        BY <2>1 DEF Login
      <4>2. QED BY <1>t, <4>1, <3>1, <3>2, <3>3
    <3>5. Cardinality(Hashing)' <= HashSlots
      BY <3>1, SlotsFreed DEF TypeOK
    <3>6. /\ pc' \in [Request -> {"free", "waiting", "hashing", "saving"}]
          /\ from' \in [Request -> Client \cup {None}] /\ ip' \in [Request -> Client \cup {None}]
          /\ \A q \in Request : pc'[q] # "free" => ip'[q] \in Client
          /\ tok' = tok /\ \A q \in Request : pc'[q] = "saving" => tok[q] \in Token
      <4>1. CASE UNCHANGED logins
        BY <4>1 DEF TypeOK
      <4>2. CASE /\ pc' = [pc EXCEPT ![r] = "waiting"] /\ tok' = tok
                 /\ from' = [from EXCEPT ![r] = c] /\ ip' = [ip EXCEPT ![r] = a]
        BY <3>2, <4>2 DEF TypeOK
      <4>3. QED BY <3>1, <4>1, <4>2
    <3>7. UNCHANGED <<now, up, cred, sessions, tally, table, bound, leaving, boots, faults, history>>
      BY <2>1 DEF Login
    <3>8. QED BY <3>4, <3>5, <3>6, <3>7 DEF TypeOK
  <2>2. CASE TakeSlot(r)
    <3>1. Hashing' = Hashing \cup {r} /\ Hashing \in SUBSET Request
      BY <2>2 DEF TakeSlot, Hashing, TypeOK
    <3>2. IsFiniteSet(Hashing) /\ Cardinality(Hashing) \in Nat
      BY <3>1, FS_Subset, FS_CardinalityType
    <3>3. Cardinality(Hashing)' \in {Cardinality(Hashing), Cardinality(Hashing) + 1}
      BY <3>1, <3>2, OneMore, Zenon
    <3>4. Cardinality(Hashing)' <= HashSlots
      BY <2>2, <3>2, <3>3 DEF TakeSlot
    <3>5. QED BY <2>2, <3>4 DEF TakeSlot, TypeOK
  <2>3. CASE Shed(r) \/ Fail(r)
    <3>1. Finish(r) /\ UNCHANGED <<now, up, cred, memory, table, bound, leaving, boots, faults, history>>
      BY <2>3 DEF Shed, Fail
    <3>2. Cardinality(Hashing)' <= HashSlots
      BY <3>1, SlotsFreed DEF Finish, TypeOK
    <3>3. /\ pc' \in [Request -> {"free", "waiting", "hashing", "saving"}]
          /\ from' \in [Request -> Client \cup {None}] /\ ip' \in [Request -> Client \cup {None}]
          /\ \A q \in Request : pc'[q] # "free" => ip'[q] \in Client
      BY <3>1 DEF Finish, TypeOK
    <3>4. /\ tok' \in [Request -> Token \cup {None}]
          /\ \A q \in Request : pc'[q] = "saving" => tok'[q] \in Token
      BY <3>1 DEF Finish, TypeOK
    <3>5. QED BY <3>1, <3>2, <3>3, <3>4 DEF TypeOK
  <2>4. CASE Refuse(r)
    <3>1. Cardinality(Hashing)' <= HashSlots
      BY <2>4, SlotsFreed DEF Refuse, Finish, TypeOK
    <3>2. ip[r] \in Client /\ RecordFailure(ip[r]) /\ tried \in [Client -> Counter] /\ untracked \subseteq Client
      BY <2>4 DEF Refuse, TypeOK
    <3>3. Counted(global, GlobalFailWindow) \in Counter /\ Counted(tried[ip[r]], FailWindow) \in Counter
      BY <1>t, <3>2, CounterTypes
    <3>4. failures' \in [Client -> Counter] /\ global' \in Counter
      BY <3>2, <3>3, RecordFailureFacts
    <3>5. tried' = [tried EXCEPT ![ip[r]] = Counted(tried[ip[r]], FailWindow)]
      BY <3>2, RecordFailureFacts
    <3>6. tried' \in [Client -> Counter]
      BY <3>2, <3>3, <3>5
    <3>7. untracked' \subseteq Client
      BY <3>2, RecordFailureFacts
    <3>8. QED BY <2>4, <3>1, <3>4, <3>6, <3>7 DEF Refuse, Finish, TypeOK
  <2>5. CASE Issue(r)
    <3>1. Cardinality(Hashing)' <= HashSlots
      BY <2>5, SlotsFreed DEF Issue, TypeOK
    <3>2. /\ failures' \in [Client -> Counter] /\ global' \in Counter
          /\ tried' \in [Client -> Counter] /\ untracked' \subseteq Client
      BY <2>5, <1>t DEF Issue, TypeOK
    <3>3. PICK t \in Token :
            /\ sessions' = [sessions EXCEPT ![t] = now + TTL]
            /\ pc' = [pc EXCEPT ![r] = "saving"] /\ tok' = [tok EXCEPT ![r] = t]
            /\ issuer' = [issuer EXCEPT ![t] = cred]
            /\ expires' = [expires EXCEPT ![t] = now + TTL]
            /\ unbound' \in {unbound, unbound \cup {t}}
      BY <2>5 DEF Issue
    <3>4. now + TTL \in Nat
      BY <1>t
    <3>5. QED BY <2>5, <3>1, <3>2, <3>3, <3>4 DEF Issue, TypeOK
  <2>6. CASE Save(r)
    <3>1. Cardinality(Hashing)' <= HashSlots
      BY <2>6, SlotsFreed DEF Save, Finish, TypeOK
    <3>2. tok[r] \in Token
      BY <2>6 DEF Save, TypeOK
    <3>3. faults' \in Nat /\ table' \in [Token -> Nat] /\ owed' \subseteq Token
      BY <1>f, <2>6, <3>2 DEF Save, TypeOK
    <3>4. QED BY <2>6, <3>1, <3>3 DEF Save, Finish, TypeOK
  <2>7. QED BY <1>5, <2>1, <2>2, <2>3, <2>4, <2>5, <2>6
<1>6. ASSUME NEW t \in Token, Logout(t) \/ Forget(t) \/ DropExpired(t) PROVE TypeOK'
  <2>1. Cardinality(Hashing)' <= HashSlots
    BY <1>6, SlotsFreed DEF Logout, Forget, DropExpired
  <2>2. CASE Logout(t)
    BY <2>1, <2>2 DEF Logout, TypeOK, NoSession
  <2>3. CASE Forget(t)
    <3>1. faults' \in Nat /\ table' \in [Token -> Nat] /\ out' \subseteq Token
      BY <1>f, <2>3 DEF Forget, TypeOK, NoSession
    <3>2. QED BY <2>1, <2>3, <3>1 DEF Forget, TypeOK
  <2>4. CASE DropExpired(t)
    BY <2>1, <2>4 DEF DropExpired, TypeOK, NoSession
  <2>5. QED BY <1>6, <2>2, <2>3, <2>4
<1>7. CASE UNCHANGED vars
  <2>1. Cardinality(Hashing)' <= HashSlots
    BY <1>7, SlotsFreed
  <2>2. QED BY <1>7, <2>1 DEF TypeOK
<1>8. QED BY <1>1, <1>2, <1>3, <1>4, <1>5, <1>6, <1>7 DEF Next

\* TypeOK holds initially.
LEMMA TypeInit == Init => TypeOK
<1> SUFFICES ASSUME Init PROVE TypeOK
  OBVIOUS
<1>1. Cardinality(Hashing) <= HashSlots
  <2>1. Hashing = {}
    BY DEF Init, Idle, Hashing
  <2>2. QED BY <2>1, FS_EmptySet
<1>2. Empty \in [Token -> Nat] /\ NoFailures \in Counter
  BY DEF Empty, NoSession, NoFailures, Counter
<1>3. pc = [r \in Request |-> "free"] /\ tok = [r \in Request |-> None]
  BY DEF Init, Idle
<1>4. /\ failures \in [Client -> Counter] /\ global \in Counter
      /\ from \in [Request -> Client \cup {None}] /\ ip \in [Request -> Client \cup {None}]
      /\ issuer \in [Token -> Credential \cup {None}]
  BY <1>2 DEF Init
<1>5. now \in Nat \ {0} /\ faults \in Nat /\ boots \in Nat
  BY DEF Init
<1>6. QED BY <1>1, <1>2, <1>3, <1>4, <1>5 DEF Init, TypeOK

-----------------------------------------------------------------------------
(* Where tokens are                                                        *)

\* The parts of IInv that are about tokens.
Tokens == LoginShape /\ Fresh /\ Bindings /\ NoReturn /\ Kept

\* A boot adopts rows only under the credential the table is bound to.
LEMMA BootTokens ==
    ASSUME TypeOK, Tokens, NEW c \in Credential, Boot(c) PROVE Tokens'
<1>1. /\ \A t \in Token : sessions[t] = NoSession
      /\ \A r \in Request : pc[r] = "free" /\ tok[r] = None
      /\ leaving = {} /\ ~up /\ up' /\ cred' = c
      /\ UNCHANGED <<now, logins, leaving, issuer, expires, unbound, out>>
  BY DEF Boot, Tokens, LoginShape
<1>2. \A t \in Token : Rebind(c)[t] = IF bound = c THEN table[t] ELSE NoSession
  BY DEF Rebind, Empty
<1>3. /\ \A t \in Token : table'[t] \in {NoSession, table[t]} /\ sessions'[t] \in {NoSession, table'[t]}
      /\ \A t \in Token : table'[t] # NoSession => bound' = bound /\ (bound' = c \/ sessions'[t] = NoSession)
      /\ bound' \in {bound, c}
      /\ owed' \subseteq owed
      /\ \A t \in owed' : /\ c = cred /\ bound' = c
                          /\ table'[t] = IF Rebind(c)[t] > now THEN Rebind(c)[t] ELSE NoSession
                          /\ sessions'[t] = table'[t]
  <2>1. CASE bound' = c /\ table' = Live(Rebind(c)) /\ sessions' = table' /\ owed' = (IF c = cred THEN owed ELSE {})
    BY <1>2, <2>1 DEF Live, TypeOK
  <2>2. CASE bound' = bound /\ table' = table /\ sessions' = Empty /\ owed' = {}
    BY <2>2 DEF Empty
  <2>3. CASE bound' = c /\ table' = Rebind(c) /\ sessions' \in {Empty, Live(table')} /\ owed' = {}
    <3>1. \A t \in Token : sessions'[t] \in {NoSession, table'[t]}
      BY <2>3 DEF Empty, Live
    <3>2. QED BY <1>2, <2>3, <3>1
  <2>4. QED BY <2>1, <2>2, <2>3 DEF Boot
<1>4. LoginShape' /\ NoReturn' /\ Fresh'
  <2>1. LoginShape'
    BY <1>1 DEF Tokens, LoginShape
  <2>2. NoReturn'
    BY <1>1, <1>3 DEF Tokens, NoReturn, TypeOK
  <2>3. Fresh'
    BY <1>1, <1>3 DEF Tokens, Fresh
  <2>4. QED BY <2>1, <2>2, <2>3
<1>5. Bindings'
  BY <1>1, <1>3 DEF Tokens, Bindings, TypeOK
<1>6. Kept'
  <2>1. ASSUME NEW t \in owed', now < expires[t]
        PROVE  table'[t] = expires[t] /\ sessions'[t] = expires[t]
    <3>1. t \in Token /\ t \in owed /\ c = cred /\ bound = cred /\ table[t] = expires[t]
      BY <1>3, <2>1 DEF Tokens, Kept, TypeOK
    <3>2. Rebind(c)[t] = expires[t]
      BY <1>2, <3>1
    <3>3. QED BY <1>3, <2>1, <3>2
  <2>2. \A t \in owed' : bound' = cred' /\ t \notin leaving'
    BY <1>1, <1>3
  <2>3. \A r \in Request : \A t \in Token : tok'[r] # t
    BY <1>1
  <2>4. QED BY <1>1, <2>1, <2>2, <2>3 DEF Kept
<1>7. QED BY <1>4, <1>5, <1>6 DEF Tokens

\* A login draws a token nobody has, and hands it out after saving it.
LEMMA LoginTokens ==
    ASSUME TypeOK, Tokens, NEW r \in Request,
           Login(r) \/ TakeSlot(r) \/ Shed(r) \/ Fail(r) \/ Refuse(r) \/ Issue(r) \/ Save(r)
    PROVE  Tokens'
<1>1. CASE Login(r)
  <2>1. /\ UNCHANGED <<now, up, cred, sessions, table, bound, leaving, tok, history>> /\ up
        /\ pc' = pc \/ (pc[r] = "free" /\ pc' = [pc EXCEPT ![r] = "waiting"])
    BY <1>1 DEF Login
  <2>2. QED BY <2>1 DEF Tokens, LoginShape, Fresh, Bindings, NoReturn, Kept, TypeOK
<1>2. CASE TakeSlot(r) \/ Shed(r) \/ Fail(r) \/ Refuse(r)
  <2>1. /\ UNCHANGED <<now, up, cred, sessions, table, bound, leaving, history>>
        /\ pc[r] \in {"waiting", "hashing"} /\ tok[r] = None
        /\ \E s \in {"free", "hashing"} : pc' = [pc EXCEPT ![r] = s]
    BY <1>2 DEF TakeSlot, Shed, Fail, Refuse, Finish, Tokens, LoginShape
  <2>2. tok' = tok
    BY <1>2, <2>1 DEF TakeSlot, Shed, Fail, Refuse, Finish, TypeOK
  <2>3. QED BY <2>1, <2>2 DEF Tokens, LoginShape, Fresh, Bindings, NoReturn, Kept, TypeOK
<1>3. CASE Issue(r)
  <2>1. PICK t \in Token :
          /\ issuer[t] = None
          /\ sessions' = [sessions EXCEPT ![t] = now + TTL]
          /\ pc' = [pc EXCEPT ![r] = "saving"] /\ tok' = [tok EXCEPT ![r] = t]
          /\ issuer' = [issuer EXCEPT ![t] = cred]
          /\ expires' = [expires EXCEPT ![t] = now + TTL]
          /\ unbound' = IF bound = cred THEN unbound ELSE unbound \cup {t}
    BY <1>3 DEF Issue
  <2>2. /\ UNCHANGED <<now, up, cred, table, bound, leaving, owed, out>>
        /\ pc[r] = "hashing" /\ up /\ tok[r] = None
    BY <1>3 DEF Issue, Tokens, LoginShape
  <2>3. /\ table[t] = NoSession /\ t \notin leaving \cup owed \cup out \cup unbound
        /\ \A q \in Request : tok[q] # t
    BY <2>1 DEF Tokens, Fresh
  <2>4. LoginShape' /\ Fresh'
    BY <2>1, <2>2, <2>3 DEF Tokens, LoginShape, Fresh, TypeOK
  <2>5. Bindings'
    BY <2>1, <2>2, <2>3 DEF Tokens, Bindings, TypeOK
  <2>6. NoReturn' /\ Kept'
    BY <2>1, <2>2, <2>3 DEF Tokens, NoReturn, Kept, TypeOK
  <2>7. QED BY <2>4, <2>5, <2>6 DEF Tokens
<1>4. CASE Save(r)
  <2> DEFINE t == tok[r]
  <2>1. /\ UNCHANGED <<now, up, cred, sessions, bound, leaving, issuer, expires, unbound, out>>
        /\ pc[r] = "saving" /\ t \in Token /\ t # None
        /\ pc' = [pc EXCEPT ![r] = "free"] /\ tok' = [tok EXCEPT ![r] = None]
        /\ \/ table' = table /\ owed' = owed
           \/ /\ table' = [table EXCEPT ![t] = expires[t]]
              /\ owed' = IF t \in unbound THEN owed ELSE owed \cup {t}
    BY <1>4 DEF Save, Finish, TypeOK
  <2>2. issuer[t] # None /\ t \notin leaving /\ t \notin out
    BY <2>1 DEF Tokens, Fresh, NoReturn
  <2>3. t \notin unbound => bound = cred /\ issuer[t] = cred
    BY <2>1 DEF Tokens, Bindings
  <2>4. now < expires[t] => sessions[t] = expires[t]
    BY <2>1 DEF Tokens, Kept
  <2> HIDE DEF t
  <2>5. LoginShape' /\ Fresh'
    BY <2>1, <2>2 DEF Tokens, LoginShape, Fresh, TypeOK
  <2>6. Bindings'
    BY <2>1, <2>3 DEF Tokens, Bindings, TypeOK
  <2>7. NoReturn'
    BY <2>1, <2>2 DEF Tokens, NoReturn, TypeOK
  <2>8. Kept'
    BY <2>1, <2>2, <2>3, <2>4 DEF Tokens, Kept, TypeOK
  <2>9. QED BY <2>5, <2>6, <2>7, <2>8 DEF Tokens
<1>5. QED BY <1>1, <1>2, <1>3, <1>4

\* A logout takes the token out of memory and out of the table.
LEMMA LogoutTokens ==
    ASSUME TypeOK, Tokens, NEW t \in Token, Logout(t) \/ Forget(t)
    PROVE  Tokens'
<1>1. CASE Logout(t)
  <2>1. /\ UNCHANGED <<now, up, cred, table, bound, logins, issuer, expires, unbound, out>>
        /\ up /\ issuer[t] # None /\ \A r \in Request : tok[r] # t
        /\ sessions' = [sessions EXCEPT ![t] = NoSession]
        /\ leaving' = leaving \cup {t} /\ owed' = owed \ {t}
    BY <1>1 DEF Logout, Handed
  <2>2. LoginShape' /\ Fresh' /\ Bindings'
    BY <2>1 DEF Tokens, LoginShape, Fresh, Bindings, TypeOK
  <2>3. NoReturn' /\ Kept'
    BY <2>1 DEF Tokens, NoReturn, Kept, TypeOK
  <2>4. QED BY <2>2, <2>3 DEF Tokens
<1>2. CASE Forget(t)
  <2>1. /\ UNCHANGED <<now, up, cred, sessions, bound, logins, issuer, expires, unbound, owed>>
        /\ t \in leaving /\ leaving' = leaving \ {t}
        /\ \/ table' = table /\ out' = out
           \/ table' = [table EXCEPT ![t] = NoSession] /\ out' = out \cup {t}
    BY <1>2 DEF Forget
  <2>2. LoginShape' /\ Fresh' /\ Bindings'
    BY <2>1 DEF Tokens, LoginShape, Fresh, Bindings, TypeOK
  <2>3. NoReturn' /\ Kept'
    BY <2>1 DEF Tokens, NoReturn, Kept, TypeOK
  <2>4. QED BY <2>2, <2>3 DEF Tokens
<1>3. QED BY <1>1, <1>2

\* Expiry, lazy or by the reaper, drops only what has expired.
LEMMA ExpiryTokens ==
    ASSUME TypeOK, Tokens, Reap \/ \E t \in Token : DropExpired(t)
    PROVE  Tokens'
<1>1. /\ UNCHANGED <<now, up, cred, bound, logins, leaving, history>>
      /\ \A t \in Token : sessions'[t] = sessions[t] \/ (sessions'[t] = NoSession /\ now > sessions[t])
      /\ \A t \in Token : table'[t] = table[t] \/ (table'[t] = NoSession /\ (table[t] <= now \/ (sessions[t] # NoSession /\ now > sessions[t])))
  <2>1. CASE Reap
    <3>1. \A t \in Token : sessions'[t] = sessions[t] \/ (sessions'[t] = NoSession /\ now > sessions[t])
      BY <2>1 DEF Reap, Expired
    <3>2. \A t \in Token : Live(table)[t] = table[t] \/ (Live(table)[t] = NoSession /\ table[t] <= now)
      BY DEF Live, TypeOK
    <3>3. \A t \in Token : table'[t] = table[t] \/ (table'[t] = NoSession /\ table[t] <= now)
      BY <2>1, <3>2 DEF Reap
    <3>4. UNCHANGED <<now, up, cred, bound, logins, leaving, history>>
      BY <2>1 DEF Reap
    <3>5. QED BY <3>1, <3>3, <3>4
  <2>2. CASE \E t \in Token : DropExpired(t)
    BY <2>2 DEF DropExpired, Expired, TypeOK
  <2>3. QED BY <2>1, <2>2
<1>2. LoginShape' /\ Fresh' /\ Bindings' /\ NoReturn'
  BY <1>1 DEF Tokens, LoginShape, Fresh, Bindings, NoReturn, TypeOK
<1>3. Kept'
  <2>1. ASSUME NEW t \in owed, now < expires[t]
        PROVE  table'[t] = expires[t] /\ (up => sessions'[t] = expires[t])
    <3>1. t \in Token /\ table[t] = expires[t] /\ (up => sessions[t] = expires[t])
      BY <2>1 DEF Tokens, Kept, TypeOK
    <3>2. ~up => sessions[t] = NoSession
      BY <3>1 DEF Tokens, LoginShape
    <3>3. now \in Nat /\ expires[t] \in Nat
      BY <3>1 DEF TypeOK
    <3>4. QED BY <1>1, <2>1, <3>1, <3>2, <3>3
  <2>2. ASSUME NEW r \in Request, NEW t \in Token, tok[r] = t, now < expires[t]
        PROVE  sessions'[t] = expires[t]
    <3>1. sessions[t] = expires[t] /\ now \in Nat /\ expires[t] \in Nat
      BY <2>2 DEF Tokens, Kept, TypeOK
    <3>2. QED BY <1>1, <2>2, <3>1
  <2>3. QED BY <1>1, <2>1, <2>2 DEF Tokens, Kept
<1>4. QED BY <1>2, <1>3 DEF Tokens

\* Tokens are where they belong after every step.
LEMMA TokensStep == ASSUME TypeOK, Tokens, [Next]_vars PROVE Tokens'
<1>1. CASE Tick
  <2>1. /\ UNCHANGED <<up, cred, sessions, table, bound, logins, leaving, history>>
        /\ \A t \in Token : now' < expires[t] => now < expires[t]
    BY <1>1 DEF Tick, TypeOK
  <2>2. QED BY <2>1 DEF Tokens, LoginShape, Fresh, Bindings, NoReturn, Kept, TypeOK
<1>2. CASE Stop
  <2>1. /\ UNCHANGED <<now, cred, table, bound, history>> /\ ~up' /\ leaving' = {}
        /\ \A t \in Token : sessions'[t] = NoSession
        /\ \A r \in Request : pc'[r] = "free" /\ tok'[r] = None
    BY <1>2 DEF Stop, Empty, Idle
  <2>2. QED BY <2>1 DEF Tokens, LoginShape, Fresh, Bindings, NoReturn, Kept, TypeOK
<1>3. ASSUME NEW c \in Credential, Boot(c) PROVE Tokens'
  BY <1>3, BootTokens
<1>4. ASSUME NEW r \in Request, Login(r) \/ TakeSlot(r) \/ Shed(r) \/ Fail(r) \/ Refuse(r) \/ Issue(r) \/ Save(r)
      PROVE  Tokens'
  BY <1>4, LoginTokens
<1>5. ASSUME NEW t \in Token, Logout(t) \/ Forget(t) PROVE Tokens'
  BY <1>5, LogoutTokens
<1>6. CASE Reap \/ \E t \in Token : DropExpired(t)
  BY <1>6, ExpiryTokens
<1>7. CASE UNCHANGED vars
  BY <1>7 DEF Tokens, LoginShape, Fresh, Bindings, NoReturn, Kept
<1>8. QED BY <1>1, <1>2, <1>3, <1>4, <1>5, <1>6, <1>7 DEF Next

-----------------------------------------------------------------------------
(* The limiter                                                             *)

\* The attempts in progress are finitely many, at most one per goroutine.
LEMMA AttemptsFinite ==
    /\ Cardinality(Request) \in Nat
    /\ IsFiniteSet(Pending) /\ Cardinality(Pending) \in Nat /\ Cardinality(Pending) <= Cardinality(Request)
    /\ \A a : /\ IsFiniteSet(Attempts(a)) /\ Cardinality(Attempts(a)) \in Nat
              /\ Cardinality(Attempts(a)) <= Cardinality(Request)
<1>1. Pending \in SUBSET Request /\ \A a : Attempts(a) \in SUBSET Request
  BY DEF Attempts, Pending
<1>2. \A S \in SUBSET Request : /\ IsFiniteSet(S) /\ Cardinality(S) \in Nat
                                /\ Cardinality(S) <= Cardinality(Request)
  BY FS_Subset, FS_CardinalityType
<1>3. QED BY <1>1, <1>2, FS_CardinalityType

\* The same of the attempts after a step.
LEMMA AttemptsFinitePrimed ==
    /\ Cardinality(Pending') \in Nat /\ Cardinality(Pending') <= Cardinality(Request)
    /\ \A a : Cardinality(Attempts(a)') \in Nat /\ Cardinality(Attempts(a)') <= Cardinality(Request)
<1>1. Pending' \in SUBSET Request /\ \A a : Attempts(a)' \in SUBSET Request
  BY DEF Attempts, Pending
<1>2. \A S \in SUBSET Request : /\ IsFiniteSet(S) /\ Cardinality(S) \in Nat
                                /\ Cardinality(S) <= Cardinality(Request)
  BY FS_Subset, FS_CardinalityType
<1>3. QED BY <1>1, <1>2

\* A set that has lost nothing but, possibly, one element; it has lost that one.
LEMMA Fewer ==
    ASSUME NEW S, NEW T, IsFiniteSet(S), T \subseteq S
    PROVE  /\ Cardinality(T) \in Nat /\ Cardinality(S) \in Nat /\ Cardinality(T) <= Cardinality(S)
           /\ \A x \in S : x \notin T => Cardinality(T) + 1 <= Cardinality(S)
<1>1. IsFiniteSet(T) /\ Cardinality(T) <= Cardinality(S)
  BY FS_Subset
<1>2. Cardinality(T) \in Nat /\ Cardinality(S) \in Nat
  BY <1>1, FS_CardinalityType
<1>3. ASSUME NEW x \in S, x \notin T PROVE Cardinality(T) + 1 <= Cardinality(S)
  <2>1. IsFiniteSet(S \ {x}) /\ Cardinality(S \ {x}) = Cardinality(S) - 1
    BY FS_RemoveElement
  <2>2. T \subseteq S \ {x}
    BY <1>3
  <2>3. Cardinality(T) <= Cardinality(S \ {x})
    BY <2>1, <2>2, FS_Subset
  <2>4. QED BY <1>2, <2>1, <2>3
<1>4. QED BY <1>1, <1>2, <1>3

\* Windows: rolling twice is rolling once, and a failure is counted alike in a
\* window that has run out and in the one it is rolled to.
LEMMA WindowFacts ==
    ASSUME now \in Nat, NEW f \in Counter, NEW w \in Nat
    PROVE  /\ Rolled(Rolled(f, w), w) = Rolled(f, w)
           /\ Counted(Rolled(f, w), w) = Counted(f, w)
           /\ Rolled(Counted(f, w), w) = Counted(f, w)
           /\ Rolled(f, w).count + 1 >= Counted(f, w).count
<1>1. /\ NoFailures.count = 0 /\ f.count \in Nat /\ f.first \in Nat
      /\ f = [count |-> f.count, first |-> f.first]
  BY CounterFacts
<1>2. CASE Over(f, w)
  <2>1. Rolled(f, w) = NoFailures /\ Counted(f, w) = [count |-> 1, first |-> now]
    BY <1>2 DEF Rolled, Counted
  <2>2. ~Over(NoFailures, w)
    BY <1>1 DEF Over
  <2>3. Counted(NoFailures, w) = [count |-> 1, first |-> now]
    BY <1>1 DEF Counted
  <2>4. ~Over([count |-> 1, first |-> now], w)
    BY <1>1 DEF Over
  <2>5. QED BY <1>1, <2>1, <2>2, <2>3, <2>4 DEF Rolled
<1>3. CASE ~Over(f, w)
  <2>1. Rolled(f, w) = f
    BY <1>3 DEF Rolled
  <2>2. \/ Counted(f, w) = [count |-> 1, first |-> now]
        \/ Counted(f, w) = [count |-> f.count + 1, first |-> f.first]
    BY <1>1, <1>3 DEF Counted
  <2>3. Counted(f, w).count <= f.count + 1
    BY <1>1, <2>2
  <2>4. ~Over(Counted(f, w), w)
    <3>1. CASE f.count = 0
      BY <1>1, <3>1 DEF Over, Counted
    <3>2. CASE f.count # 0
      <4>1. ~(now - f.first > w)
        BY <1>1, <1>3, <3>2 DEF Over
      <4>2. Counted(f, w).first = f.first
        BY <1>1, <1>3, <3>2 DEF Counted
      <4>3. QED BY <4>1, <4>2 DEF Over
    <3>3. QED BY <3>1, <3>2
  <2>5. QED BY <1>1, <2>1, <2>3, <2>4 DEF Rolled
<1>4. QED BY <1>2, <1>3

\* What the limiter knows of an address is what it has tried.
Known(a) == tried[a] = Rolled(failures[a], FailWindow)

\* What an address may still try is within the limit.
Within(a) == tried[a].count + Cardinality(Attempts(a)) < MaxFailures + Cardinality(Request)

\* An address keeps within the limit when nothing is added to its tally and no
\* attempt on it begins.
LEMMA AttemptsEase ==
    ASSUME TypeOK, TypeOK', NEW a \in Client, Within(a), tried'[a].count <= tried[a].count,
           \A r \in Request : pc'[r] \in {"waiting", "hashing"} /\ ip'[r] = a
                              => pc[r] \in {"waiting", "hashing"} /\ ip[r] = a
    PROVE  Within(a)'
<1>1. Attempts(a)' \subseteq Attempts(a)
  BY DEF Attempts
<1>2. Cardinality(Attempts(a)') <= Cardinality(Attempts(a))
  BY <1>1, AttemptsFinite, Fewer
<1>3. tried[a] \in Counter /\ tried'[a] \in Counter
  BY DEF TypeOK
<1>4. tried[a].count \in Nat /\ tried'[a].count \in Nat
  BY <1>3, CounterFacts
<1>5. QED BY <1>2, <1>4, AttemptsFinite, AttemptsFinitePrimed DEF Within

\* The window of an address, rolled or not, says the same.
LEMMA KnownStays ==
    ASSUME TypeOK, NEW a \in Client, Known(a), tried'[a] = tried[a], now' = now,
           failures'[a] \in {failures[a], Rolled(failures[a], FailWindow)}
    PROVE  Known(a)'
<1>1. now \in Nat /\ failures[a] \in Counter
  BY DEF TypeOK
<1>2. Rolled(Rolled(failures[a], FailWindow), FailWindow) = Rolled(failures[a], FailWindow)
  BY <1>1, WindowFacts
<1>3. Rolled(failures'[a], FailWindow) = Rolled(failures[a], FailWindow)
  BY <1>2
<1>4. Rolled(failures[a], FailWindow)' = Rolled(failures'[a], FailWindow)
  BY DEF Rolled, Over
<1>5. QED BY <1>3, <1>4 DEF Known

\* An address with an empty tally and no window that counts is known and within the
\* limit.
LEMMA CleanSlate ==
    ASSUME TypeOK', NEW a \in Client, tried'[a] = NoFailures,
           failures'[a].count = 0 \/ now' - failures'[a].first > FailWindow
    PROVE  Known(a)' /\ Within(a)'
<1>1. failures'[a] \in Counter /\ NoFailures.count = 0
  BY CounterFacts DEF TypeOK
<1>2. failures'[a].count \in Nat /\ (failures'[a].count = 0 => failures'[a] = NoFailures)
  BY <1>1, CounterFacts
<1>3. Rolled(failures[a], FailWindow)' = NoFailures
  <2>1. CASE failures'[a].count = 0
    BY <1>2, <2>1 DEF Rolled
  <2>2. CASE failures'[a].count # 0
    BY <1>2, <2>2 DEF Rolled, Over
  <2>3. QED BY <2>1, <2>2
<1>4. Known(a)'
  BY <1>3 DEF Known
<1>5. Within(a)'
  BY <1>1, AttemptsFinite, AttemptsFinitePrimed DEF Within
<1>6. QED BY <1>4, <1>5

\* A failure that is counted is an attempt less to come; an attempt begins only
\* below the limit.
LEMMA AddressStep ==
    ASSUME TypeOK, TypeOK', [Next]_vars, NEW a \in Client, a \notin untracked',
           a \notin untracked => Known(a) /\ Within(a)
    PROVE  Known(a)' /\ Within(a)'
<1>t. /\ now \in Nat /\ failures \in [Client -> Counter] /\ tried \in [Client -> Counter]
      /\ failures[a] \in Counter /\ tried[a] \in Counter
      /\ tried' \in [Client -> Counter] /\ tried'[a] \in Counter
      /\ pc \in [Request -> {"free", "waiting", "hashing", "saving"}] /\ DOMAIN ip = Request
  BY DEF TypeOK
<1>c. /\ tried[a].count \in Nat /\ tried'[a].count \in Nat /\ tried[a].first \in Nat
      /\ failures[a].count \in Nat /\ failures[a].first \in Nat
      /\ (tried'[a].count = 0 => tried'[a] = NoFailures)
      /\ (failures[a].count = 0 => failures[a] = NoFailures)
      /\ NoFailures.count = 0 /\ NoFailures.first = 0
  BY <1>t, CounterFacts
<1>1. CASE Stop
  <2>1. failures'[a] = NoFailures /\ tried'[a] = NoFailures
    BY <1>1 DEF Stop
  <2>2. QED BY <1>c, <2>1, CleanSlate
<1>2. CASE Tick
  <2>1. /\ now' = now + 1 /\ UNCHANGED <<failures, pc, ip>>
        /\ tried'[a] = IF now + 1 - tried[a].first > FailWindow THEN NoFailures ELSE tried[a]
        /\ a \in untracked => /\ ~(tried'[a].count > 0)
                              /\ ~(failures[a].count > 0 /\ now + 1 - failures[a].first <= FailWindow)
    BY <1>2 DEF Tick
  <2>2. CASE a \in untracked
    <3>1. tried'[a] = NoFailures
      BY <1>c, <2>1, <2>2
    <3>2. failures'[a].count = 0 \/ now' - failures'[a].first > FailWindow
      BY <1>t, <1>c, <2>1, <2>2
    <3>3. QED BY <3>1, <3>2, CleanSlate
  <2>3. CASE a \notin untracked
    <3>1. tried[a] = Rolled(failures[a], FailWindow) /\ Within(a)
      BY <2>3 DEF Known
    <3>2. Within(a)'
      BY <1>c, <2>1, <3>1, AttemptsEase
    <3>3. Known(a)'
      <4>1. CASE Over(failures[a], FailWindow)
        <5>1. tried'[a] = NoFailures
          BY <2>1, <3>1, <4>1 DEF Rolled
        <5>2. now' - failures'[a].first > FailWindow
          BY <1>t, <1>c, <2>1, <4>1 DEF Over
        <5>3. QED BY <5>1, <5>2, CleanSlate
      <4>2. CASE ~Over(failures[a], FailWindow)
        <5>1. tried[a] = failures[a]
          BY <3>1, <4>2 DEF Rolled
        <5>2. failures'[a] = failures[a] /\ now' = now + 1
          BY <2>1
        <5>3. CASE failures[a].count > 0 /\ now + 1 - failures[a].first > FailWindow
          <6>1. Rolled(failures[a], FailWindow)' = NoFailures
            BY <1>t, <1>c, <5>2, <5>3 DEF Rolled, Over
          <6>2. tried'[a] = NoFailures
            BY <2>1, <5>1, <5>3
          <6>3. QED BY <6>1, <6>2 DEF Known
        <5>4. CASE ~(failures[a].count > 0 /\ now + 1 - failures[a].first > FailWindow)
          <6>1. Rolled(failures[a], FailWindow)' = failures[a]
            BY <1>t, <1>c, <5>2, <5>4 DEF Rolled, Over
          <6>2. tried'[a] = failures[a]
            BY <1>c, <2>1, <5>1, <5>4
          <6>3. QED BY <6>1, <6>2 DEF Known
        <5>5. QED BY <5>3, <5>4
      <4>3. QED BY <4>1, <4>2
    <3>4. QED BY <3>2, <3>3
  <2>4. QED BY <2>2, <2>3
<1>3. CASE Reap
  <2>1. now' = now /\ UNCHANGED <<tally, pc, ip>> /\ failures'[a] = Rolled(failures[a], FailWindow)
    BY <1>3, <1>t DEF Reap, Pruned
  <2>2. Known(a) /\ Within(a)
    BY <2>1
  <2>3. QED BY <1>c, <2>1, <2>2, KnownStays, AttemptsEase
<1>4. ASSUME NEW r \in Request, Login(r) PROVE Known(a)' /\ Within(a)'
  <2>1. PICK c, b :
          /\ c \in Client /\ b \in SeenAs[c]
          /\ IF RateLimited(b) THEN UNCHANGED logins
             ELSE /\ pc' = [pc EXCEPT ![r] = "waiting"] /\ ip' = [ip EXCEPT ![r] = b]
          /\ failures' = IF Rolled(global, GlobalFailWindow).count >= GlobalMaxFailures
                         THEN failures ELSE [failures EXCEPT ![b] = Rolled(failures[b], FailWindow)]
    BY <1>4, <1>t DEF Login
  <2>2. now' = now /\ UNCHANGED tally
    BY <1>4 DEF Login
  <2>3. Known(a) /\ Within(a)
    BY <2>2
  <2>4. failures'[a] \in {failures[a], Rolled(failures[a], FailWindow)}
    BY <1>t, <2>1
  <2>5. Known(a)'
    BY <2>2, <2>3, <2>4, KnownStays
  <2>6. CASE a = b /\ ~RateLimited(b)
    <3>1. ~(Rolled(failures[a], FailWindow).count >= MaxFailures)
      BY <2>6 DEF RateLimited
    <3>2. tried'[a].count < MaxFailures
      BY <1>c, <2>2, <2>3, <3>1 DEF Known
    <3>3. QED BY <1>c, <2>5, <3>2, AttemptsFinite, AttemptsFinitePrimed DEF Within
  <2>7. CASE ~(a = b /\ ~RateLimited(b))
    <3>1. \A q \in Request : pc'[q] \in {"waiting", "hashing"} /\ ip'[q] = a
                             => pc[q] \in {"waiting", "hashing"} /\ ip[q] = a
      BY <1>t, <2>1, <2>7
    <3>2. QED BY <1>c, <2>2, <2>3, <2>5, <3>1, AttemptsEase
  <2>8. QED BY <2>6, <2>7
<1>5. ASSUME NEW r \in Request, Refuse(r) PROVE Known(a)' /\ Within(a)'
  <2>1. /\ pc[r] = "hashing" /\ pc' = [pc EXCEPT ![r] = "free"] /\ ip' = [ip EXCEPT ![r] = None]
        /\ ip[r] \in Client /\ RecordFailure(ip[r]) /\ now' = now
    BY <1>5 DEF Refuse, Finish, TypeOK
  <2>2. /\ a \notin untracked
        /\ tried' = [tried EXCEPT ![ip[r]] = Counted(tried[ip[r]], FailWindow)]
        /\ a # ip[r] => failures'[a] \in {failures[a], Rolled(failures[a], FailWindow)}
        /\ a = ip[r] => failures'[a] \in {Counted(failures[a], FailWindow),
                                          Counted(Rolled(failures[a], FailWindow), FailWindow)}
    BY <2>1, RecordFailureFacts
  <2>3. Known(a) /\ Within(a)
    BY <2>2
  <2>4. /\ pc'[r] = "free" /\ \A q \in Request \ {r} : pc'[q] = pc[q] /\ ip'[q] = ip[q]
    BY <1>t, <2>1
  <2>5. CASE a = ip[r]
    <3>1. Counted(Rolled(failures[a], FailWindow), FailWindow) = Counted(failures[a], FailWindow)
      BY <1>t, WindowFacts
    <3>2. tried'[a] = Counted(tried[a], FailWindow) /\ tried[a] = Rolled(failures[a], FailWindow)
      BY <1>t, <2>2, <2>3, <2>5 DEF Known
    <3>3. failures'[a] = Counted(failures[a], FailWindow) /\ tried'[a] = failures'[a]
      BY <2>2, <2>5, <3>1, <3>2
    <3>4. Known(a)'
      <4>1. Rolled(Counted(failures[a], FailWindow), FailWindow) = Counted(failures[a], FailWindow)
        BY <1>t, WindowFacts
      <4>2. Rolled(failures[a], FailWindow)' = Rolled(failures'[a], FailWindow)
        BY <2>1 DEF Rolled, Over
      <4>3. QED BY <3>3, <4>1, <4>2 DEF Known
    <3>5. tried'[a].count <= tried[a].count + 1
      <4>1. Counted(tried[a], FailWindow).count <= tried[a].count + 1
        BY <1>t, CounterTypes
      <4>2. QED BY <3>2, <4>1
    <3>6. Attempts(a)' \subseteq Attempts(a) /\ r \in Attempts(a) /\ r \notin Attempts(a)'
      BY <2>1, <2>4, <2>5 DEF Attempts
    <3>7. Cardinality(Attempts(a)') + 1 <= Cardinality(Attempts(a))
      BY <3>6, AttemptsFinite, Fewer
    <3>8. Within(a)'
      <4>1. tried[a].count + Cardinality(Attempts(a)) < MaxFailures + Cardinality(Request)
        BY <2>3 DEF Within
      <4>2. /\ Cardinality(Attempts(a)) \in Nat /\ Cardinality(Attempts(a)') \in Nat /\ Cardinality(Request) \in Nat
        BY AttemptsFinite, AttemptsFinitePrimed
      <4>3. tried'[a].count + Cardinality(Attempts(a)') < MaxFailures + Cardinality(Request)
        BY <1>c, <3>5, <3>7, <4>1, <4>2
      <4>4. QED BY <4>3 DEF Within
    <3>9. QED BY <3>4, <3>8
  <2>6. CASE a # ip[r]
    <3>1. tried'[a] = tried[a]
      BY <1>t, <2>2, <2>6
    <3>2. Known(a)'
      BY <2>1, <2>2, <2>3, <2>6, <3>1, KnownStays
    <3>3. \A q \in Request : pc'[q] \in {"waiting", "hashing"} /\ ip'[q] = a
                             => pc[q] \in {"waiting", "hashing"} /\ ip[q] = a
      BY <2>4
    <3>4. QED BY <1>c, <2>3, <3>1, <3>2, <3>3, AttemptsEase
  <2>7. QED BY <2>5, <2>6
<1>6. ASSUME NEW r \in Request, Issue(r) PROVE Known(a)' /\ Within(a)'
  <2>1. /\ pc' = [pc EXCEPT ![r] = "saving"] /\ ip' = ip /\ now' = now
        /\ failures' = [failures EXCEPT ![ip[r]] = NoFailures]
        /\ tried' = [tried EXCEPT ![ip[r]] = NoFailures] /\ untracked' = untracked \ {ip[r]}
    BY <1>6 DEF Issue
  <2>2. CASE a = ip[r]
    BY <1>t, <1>c, <2>1, <2>2, CleanSlate
  <2>3. CASE a # ip[r]
    <3>1. Known(a) /\ Within(a) /\ tried'[a] = tried[a] /\ failures'[a] = failures[a]
      BY <1>t, <2>1, <2>3
    <3>2. Known(a)'
      BY <2>1, <3>1, KnownStays
    <3>3. Within(a)'
      BY <1>t, <1>c, <2>1, <3>1, AttemptsEase
    <3>4. QED BY <3>2, <3>3
  <2>4. QED BY <2>2, <2>3
<1>7. CASE \/ (\E c \in Credential : Boot(c)) \/ UNCHANGED vars
           \/ \E r \in Request : TakeSlot(r) \/ Shed(r) \/ Fail(r) \/ Save(r)
           \/ \E t \in Token : Logout(t) \/ Forget(t) \/ DropExpired(t)
  <2>1. /\ UNCHANGED <<now, failures, tally>>
        /\ \A q \in Request : pc'[q] \in {"waiting", "hashing"} /\ ip'[q] = a
                              => pc[q] \in {"waiting", "hashing"} /\ ip[q] = a
    BY <1>7, <1>t DEF Boot, TakeSlot, Shed, Fail, Save, Finish, Logout, Forget, DropExpired
  <2>2. Known(a) /\ Within(a)
    BY <2>1
  <2>3. QED BY <1>c, <2>1, <2>2, KnownStays, AttemptsEase
<1>8. QED BY <1>1, <1>2, <1>3, <1>4, <1>5, <1>6, <1>7 DEF Next

\* The same of all addresses together, which the global window counts.
LEMMA GlobalStep ==
    ASSUME TypeOK, TypeOK', [Next]_vars,
           global.count + Cardinality(Pending) < GlobalMaxFailures + Cardinality(Request)
    PROVE  (global.count + Cardinality(Pending) < GlobalMaxFailures + Cardinality(Request))'
<1>t. /\ now \in Nat /\ global \in Counter
      /\ pc \in [Request -> {"free", "waiting", "hashing", "saving"}]
  BY DEF TypeOK
<1>c. global.count \in Nat /\ global'.count \in Nat /\ NoFailures.count = 0
  BY CounterFacts DEF TypeOK
<1>e. ASSUME global'.count <= global.count, Pending' \subseteq Pending
      PROVE  (global.count + Cardinality(Pending) < GlobalMaxFailures + Cardinality(Request))'
  <2>1. Cardinality(Pending') <= Cardinality(Pending)
    BY <1>e, AttemptsFinite, Fewer
  <2>2. QED BY <1>c, <1>e, <2>1, AttemptsFinite, AttemptsFinitePrimed
<1>1. CASE Stop
  <2>1. global' = NoFailures /\ Pending' = {}
    BY <1>1 DEF Stop, Idle, Pending
  <2>2. QED BY <1>c, <1>e, <2>1
<1>2. ASSUME NEW r \in Request, Login(r)
      PROVE  (global.count + Cardinality(Pending) < GlobalMaxFailures + Cardinality(Request))'
  <2>1. PICK b : /\ global' = Rolled(global, GlobalFailWindow)
                 /\ IF RateLimited(b) THEN UNCHANGED pc ELSE pc' = [pc EXCEPT ![r] = "waiting"]
    BY <1>2 DEF Login
  <2>2. CASE RateLimited(b)
    <3>1. global'.count <= global.count
      BY <1>t, <2>1, CounterTypes
    <3>2. Pending' = Pending
      BY <2>1, <2>2 DEF Pending
    <3>3. QED BY <1>e, <3>1, <3>2
  <2>3. CASE ~RateLimited(b)
    <3>1. global'.count < GlobalMaxFailures
      BY <1>c, <2>1, <2>3 DEF RateLimited
    <3>2. QED BY <1>c, <3>1, AttemptsFinite, AttemptsFinitePrimed
  <2>4. QED BY <2>2, <2>3
<1>3. ASSUME NEW r \in Request, Refuse(r)
      PROVE  (global.count + Cardinality(Pending) < GlobalMaxFailures + Cardinality(Request))'
  <2>1. /\ pc[r] = "hashing" /\ pc' = [pc EXCEPT ![r] = "free"]
        /\ ip[r] \in Client /\ RecordFailure(ip[r])
    BY <1>3 DEF Refuse, Finish, TypeOK
  <2>2. global' = Counted(global, GlobalFailWindow)
    BY <2>1, RecordFailureFacts
  <2>3. global'.count <= global.count + 1
    BY <1>t, <2>2, CounterTypes
  <2>4. Pending' \subseteq Pending /\ r \in Pending /\ r \notin Pending'
    BY <1>t, <2>1 DEF Pending
  <2>5. Cardinality(Pending') + 1 <= Cardinality(Pending)
    BY <2>4, AttemptsFinite, Fewer
  <2>6. QED BY <1>c, <2>3, <2>5, AttemptsFinite, AttemptsFinitePrimed
<1>4. ASSUME NEW r \in Request, Issue(r)
      PROVE  (global.count + Cardinality(Pending) < GlobalMaxFailures + Cardinality(Request))'
  <2>1. global' = NoFailures /\ pc' = [pc EXCEPT ![r] = "saving"]
    BY <1>4 DEF Issue
  <2>2. Pending' \subseteq Pending
    BY <1>t, <2>1 DEF Pending
  <2>3. QED BY <1>c, <1>e, <2>1, <2>2
<1>5. CASE \/ Tick \/ Reap \/ (\E c \in Credential : Boot(c)) \/ UNCHANGED vars
           \/ \E r \in Request : TakeSlot(r) \/ Shed(r) \/ Fail(r) \/ Save(r)
           \/ \E t \in Token : Logout(t) \/ Forget(t) \/ DropExpired(t)
  <2>1. global' = global
    BY <1>5 DEF Tick, Reap, Boot, TakeSlot, Shed, Fail, Save, Logout, Forget, DropExpired
  <2>2. \A q \in Request : pc'[q] \in {"waiting", "hashing"} => pc[q] \in {"waiting", "hashing"}
    <3>1. CASE pc' = pc
      BY <3>1
    <3>2. ASSUME NEW r \in Request, TakeSlot(r) PROVE pc[r] = "waiting" /\ pc' = [pc EXCEPT ![r] = "hashing"]
      BY <3>2 DEF TakeSlot
    <3>3. ASSUME NEW r \in Request, Shed(r) \/ Fail(r) \/ Save(r) PROVE pc' = [pc EXCEPT ![r] = "free"]
      BY <3>3 DEF Shed, Fail, Save, Finish
    <3>4. CASE \E r \in Request : TakeSlot(r)
      BY <1>t, <3>2, <3>4
    <3>5. CASE \E r \in Request : Shed(r) \/ Fail(r) \/ Save(r)
      BY <1>t, <3>3, <3>5
    <3>6. CASE \/ Tick \/ Reap \/ (\E c \in Credential : Boot(c)) \/ UNCHANGED vars
               \/ \E t \in Token : Logout(t) \/ Forget(t) \/ DropExpired(t)
      BY <3>1, <3>6 DEF Tick, Reap, Boot, Logout, Forget, DropExpired
    <3>7. QED BY <1>5, <3>4, <3>5, <3>6
  <2>3. Pending' \subseteq Pending
    BY <2>2 DEF Pending
  <2>4. QED BY <1>c, <1>e, <2>1, <2>3
<1>6. QED BY <1>1, <1>2, <1>3, <1>4, <1>5 DEF Next

\* The limiter after every step.
LEMMA AttemptedStep == ASSUME TypeOK, TypeOK', Attempted, [Next]_vars PROVE Attempted'
<1>1. ASSUME NEW a \in Client, a \notin untracked' PROVE Known(a)' /\ Within(a)'
  <2>1. a \notin untracked => Known(a) /\ Within(a)
    BY DEF Attempted, Known, Within
  <2>2. QED BY <1>1, <2>1, AddressStep
<1>2. (global.count + Cardinality(Pending) < GlobalMaxFailures + Cardinality(Request))'
  BY GlobalStep DEF Attempted
<1>3. QED BY <1>1, <1>2 DEF Attempted, Known, Within

\* A login keeps the address it was received with.
LEMMA CountedStep == ASSUME TypeOK, CountedAgainstClient, [Next]_vars PROVE CountedAgainstClient'
<1>1. ASSUME NEW r \in Request, Login(r) PROVE CountedAgainstClient'
  <2>1. PICK c, a :
          /\ c \in Client /\ a \in SeenAs[c]
          /\ \/ UNCHANGED <<ip, from>>
             \/ from' = [from EXCEPT ![r] = c] /\ ip' = [ip EXCEPT ![r] = a]
    BY <1>1 DEF Login
  <2>2. a = c
    BY <2>1, SeenAsSelf
  <2>3. DOMAIN from = Request /\ DOMAIN ip = Request
    BY DEF TypeOK
  <2>4. QED BY <2>1, <2>2, <2>3 DEF CountedAgainstClient
<1>2. ASSUME NEW r \in Request, TakeSlot(r) \/ Shed(r) \/ Fail(r) \/ Refuse(r) \/ Issue(r) \/ Save(r)
      PROVE  CountedAgainstClient'
  <2>1. \/ UNCHANGED <<ip, from>>
        \/ from' = [from EXCEPT ![r] = None] /\ ip' = [ip EXCEPT ![r] = None]
    BY <1>2 DEF TakeSlot, Shed, Fail, Refuse, Issue, Save, Finish
  <2>2. QED BY <2>1 DEF CountedAgainstClient, TypeOK
<1>3. CASE Stop
  BY <1>3 DEF Stop, CountedAgainstClient
<1>4. CASE \/ Tick \/ Reap \/ (\E c \in Credential : Boot(c)) \/ UNCHANGED vars
           \/ \E t \in Token : Logout(t) \/ Forget(t) \/ DropExpired(t)
  BY <1>4 DEF Tick, Reap, Boot, Logout, Forget, DropExpired, CountedAgainstClient
<1>5. QED BY <1>1, <1>2, <1>3, <1>4 DEF Next

-----------------------------------------------------------------------------
(* The theorems                                                            *)

\* IInv holds initially.
LEMMA IInvInit == Init => IInv
<1> SUFFICES ASSUME Init PROVE IInv
  OBVIOUS
<1>1. TypeOK
  BY TypeInit
<1>2. CountedAgainstClient
  BY DEF Init, CountedAgainstClient
<1>3. LoginShape /\ Fresh /\ Bindings /\ NoReturn /\ Kept
  BY DEF Init, Idle, Empty, LoginShape, Fresh, Bindings, NoReturn, Kept
<1>4. Attempted
  <2>1. \A a \in Client : tried[a] = NoFailures /\ failures[a] = NoFailures
    BY DEF Init
  <2>2. global.count = 0 /\ NoFailures.count = 0
    BY DEF Init, NoFailures
  <2>3. Pending = {} /\ \A a \in Client : Attempts(a) = {}
    BY DEF Init, Idle, Pending, Attempts
  <2>4. Rolled(NoFailures, FailWindow) = NoFailures
    BY DEF Rolled
  <2>5. Cardinality({}) = 0 /\ Cardinality(Request) \in Nat
    BY FS_EmptySet, FS_CardinalityType
  <2>6. \A a \in Client : /\ tried[a] = Rolled(failures[a], FailWindow)
                          /\ tried[a].count + Cardinality(Attempts(a)) < MaxFailures + Cardinality(Request)
    <3> SUFFICES ASSUME NEW a \in Client
                 PROVE  /\ tried[a] = Rolled(failures[a], FailWindow)
                        /\ tried[a].count + Cardinality(Attempts(a)) < MaxFailures + Cardinality(Request)
      OBVIOUS
    <3>1. tried[a] = NoFailures /\ failures[a] = NoFailures /\ Attempts(a) = {}
      BY <2>1, <2>3
    <3>2. tried[a].count = 0 /\ Cardinality(Attempts(a)) = 0
      BY <2>2, <2>5, <3>1
    <3>3. QED BY <2>4, <2>5, <3>1, <3>2
  <2>7. global.count + Cardinality(Pending) < GlobalMaxFailures + Cardinality(Request)
    BY <2>2, <2>3, <2>5
  <2>8. QED BY <2>6, <2>7 DEF Attempted
<1>5. QED BY <1>1, <1>2, <1>3, <1>4 DEF IInv

\* IInv survives every step.
LEMMA IInvStep == IInv /\ [Next]_vars => IInv'
<1> SUFFICES ASSUME IInv, [Next]_vars PROVE IInv'
  OBVIOUS
<1>1. TypeOK'
  BY TypeStep DEF IInv
<1>2. Tokens'
  BY TokensStep DEF IInv, Tokens
<1>3. Attempted' /\ CountedAgainstClient'
  BY <1>1, AttemptedStep, CountedStep DEF IInv
<1>4. QED BY <1>1, <1>2, <1>3 DEF IInv, Tokens

\* The inductive invariant of sign-in holds in every reachable state.
THEOREM SignInInvariant == Spec => []IInv
<1>1. Init => IInv
  BY IInvInit
<1>2. IInv /\ [Next]_vars => IInv'
  BY IInvStep
<1>3. QED BY <1>1, <1>2, PTL DEF Spec

\* The variables have their types and at most HashSlots passwords are hashed at
\* the same time, however logins overlap, hang up or are cut off.
THEOREM TypeCorrect == Spec => []TypeOK
<1>1. IInv => TypeOK
  BY DEF IInv
<1>2. QED BY <1>1, SignInInvariant, PTL

\* A token that passes was issued under the credential of the running process,
\* unless the process that issued it had failed to bind the table.
THEOREM BoundToCredentialHolds == Spec => []BoundToCredential
<1>1. IInv => BoundToCredential
  BY DEF IInv, Bindings, BoundToCredential, Authenticated
<1>2. QED BY <1>1, SignInInvariant, PTL

\* A token whose logout was carried out never passes again, in this process or a
\* later one.
THEOREM LoggedOutStaysOutHolds == Spec => []LoggedOutStaysOut
<1>1. IInv => LoggedOutStaysOut
  BY DEF IInv, NoReturn, LoggedOutStaysOut, Authenticated
<1>2. QED BY <1>1, SignInInvariant, PTL

\* A saved session passes until it expires, is logged out, the credential is
\* changed or the store fails: neither the reaper nor a restart ends it.
THEOREM SessionsSurviveHolds == Spec => []SessionsSurvive
<1>1. IInv => SessionsSurvive
  <2> SUFFICES ASSUME IInv, NEW t \in owed, up, now < expires[t] PROVE Authenticated(t)
    BY DEF SessionsSurvive
  <2>1. sessions[t] = expires[t] /\ now \in Nat /\ expires[t] \in Nat
    BY DEF IInv, Kept, TypeOK
  <2>2. QED BY <2>1 DEF Authenticated, Expired, NoSession
<1>2. QED BY <1>1, SignInInvariant, PTL

\* An address that the full failure map has not turned away tries fewer passwords
\* past the limit of a window than goroutines can serve logins at the same time, and
\* all addresses together overshoot the global limit by no more.
THEOREM OvershootBoundedHolds == Spec => []OvershootBounded
<1>1. IInv => OvershootBounded
  <2> SUFFICES ASSUME IInv PROVE OvershootBounded
    OBVIOUS
  <2>1. ASSUME NEW a \in Client \ untracked PROVE tried[a].count < MaxFailures + Cardinality(Request)
    <3>1. tried[a].count + Cardinality(Attempts(a)) < MaxFailures + Cardinality(Request)
      BY DEF IInv, Attempted
    <3>2. tried[a] \in Counter
      BY DEF IInv, TypeOK
    <3>3. tried[a].count \in Nat
      BY <3>2, CounterFacts
    <3>4. QED BY <3>1, <3>3, AttemptsFinite
  <2>2. global.count < GlobalMaxFailures + Cardinality(Request)
    <3>1. global.count + Cardinality(Pending) < GlobalMaxFailures + Cardinality(Request)
      BY DEF IInv, Attempted
    <3>2. global \in Counter
      BY DEF IInv, TypeOK
    <3>3. global.count \in Nat
      BY <3>2, CounterFacts
    <3>4. QED BY <3>1, <3>3, AttemptsFinite
  <2>3. QED BY <2>1, <2>2 DEF OvershootBounded
<1>2. QED BY <1>1, SignInInvariant, PTL

\* Whatever X-Forwarded-For a client sends, over however many of our proxies, its
\* login is counted against its own address.
THEOREM CountedAgainstClientHolds == Spec => []CountedAgainstClient
<1>1. IInv => CountedAgainstClient
  BY DEF IInv
<1>2. QED BY <1>1, SignInInvariant, PTL
=============================================================================
