------------------------------ MODULE Sessions ------------------------------
(***************************************************************************)
(* Sign-in of aiofiles: internal/auth (Manager, SQLSessionStore, the login *)
(* limiter) and the client address it counts against (internal/proxy).     *)
(*                                                                         *)
(* A session is in the manager's map, which every request consults, and in *)
(* the table, which survives the process.  The map is guarded by           *)
(* Manager.mu, the table is written after the unlock, and the process may  *)
(* stop between the two and come back under another AUTH_PASSWORD_HASH.    *)
(* Time is a counter; every duration is a number of ticks.                 *)
(***************************************************************************)
EXTENDS Integers, FiniteSets, Sequences

CONSTANTS
  Client,             \* addresses browsers connect from
  Proxy,              \* addresses covered by Trust.prefixes
  Forgery,            \* X-Forwarded-For lists a client may send along
  Route,              \* chains of our own proxies, the nearest one last
  Request,            \* goroutines that may serve a login at the same time
  Token,              \* what newToken may draw
  Credential,         \* values of AUTH_PASSWORD_HASH
  None,
  TTL,                \* SESSION_TTL_HOURS
  MaxFailures, FailWindow, GlobalMaxFailures, GlobalFailWindow,
  MaxFailureEntries, HashSlots,
  MaxTime, MaxBoots, MaxFaults   \* bounds of an instance

ASSUME ConstantsAssumption ==
  /\ Client \cap Proxy = {} /\ None \notin Client \cup Proxy \cup Credential \cup Token
  /\ Forgery \subseteq Seq(Client \cup Proxy \cup {None})
  /\ Route \subseteq Seq(Proxy)
  /\ IsFiniteSet(Request) /\ HashSlots \in Nat \ {0}
  /\ TTL \in Nat \ {0} /\ FailWindow \in Nat /\ GlobalFailWindow \in Nat
  /\ MaxFailures \in Nat \ {0} /\ GlobalMaxFailures \in Nat \ {0}
  /\ MaxFailureEntries \in Nat
  /\ MaxTime \in Nat /\ MaxBoots \in Nat /\ MaxFaults \in Nat

VARIABLES
  now,        \* the clock
  up,         \* a process is serving
  cred,       \* its AUTH_PASSWORD_HASH
  sessions,   \* Manager.sessions: token -> expiry, NoSession if absent
  table,      \* the rows of sessions
  bound,      \* session_credential.fingerprint, None before the first Rebind
  failures,   \* Manager.failures
  global,     \* Manager.global
  pc,         \* how far the login served by a goroutine has come
  from, ip,   \* who sent it, and the address Login counts it against
  tok,        \* the token it has drawn
  leaving,    \* tokens of logouts between their unlock and store.Delete
  boots, faults,
  \* History, read by properties only:
  tried,      \* per address, the wrong passwords of its present window, counted or not
  untracked,  \* addresses with one among them that found the map full
  issuer,     \* the credential a token was issued under
  expires,    \* when a token was to expire
  unbound,    \* tokens issued by a process whose Rebind failed
  owed,       \* tokens handed out and saved whose sessions should be live
  out         \* tokens whose logout has been carried out

tally == <<tried, untracked>>
memory == <<sessions, failures, global, tally>>
logins == <<pc, from, ip, tok>>
history == <<issuer, expires, unbound, owed, out>>
vars == <<now, up, cred, memory, table, bound, logins, leaving, boots, faults, history>>

-----------------------------------------------------------------------------
(* internal/proxy: whose request is it?                                    *)

\* What reaches the server when a client sends `forged' over `route': each proxy
\* appends the peer it saw to X-Forwarded-For.  X-Real-IP is what the request had
\* before the last proxy, our nginx, if that came from a proxy of ours; otherwise,
\* or if it had none, the peer nginx saw.
Arriving(client, forged, route, real) ==
  LET path == <<client>> \o route
      n    == Len(path)
  IN  [peer         |-> path[n],
       forwardedFor |-> IF n = 1 THEN forged ELSE forged \o SubSeq(path, 1, n - 1),
       realIP       |-> IF n # 2 /\ real # None THEN real
                        ELSE IF n = 1 THEN None ELSE path[n - 1]]

\* Slip: the leftmost address, which the client itself may have written.
ClientIPFirst(r) ==
  LET hops == {i \in DOMAIN r.forwardedFor : r.forwardedFor[i] \in Client}
  IN  IF r.peer \notin Proxy THEN r.peer
      ELSE IF hops # {} THEN r.forwardedFor[CHOOSE i \in hops : \A k \in hops : i <= k]
      ELSE IF r.realIP # None THEN r.realIP ELSE r.peer

\* The last hop that parses (None stands for garbage) and is not a proxy of ours.
ClientIP(r) ==
  LET hops == {i \in DOMAIN r.forwardedFor : r.forwardedFor[i] \in Client}
  IN  IF r.peer \notin Proxy THEN r.peer
      ELSE IF hops # {} THEN r.forwardedFor[CHOOSE i \in hops : \A k \in hops : k <= i]
      ELSE IF r.realIP # None THEN r.realIP ELSE r.peer

SeenAs == [c \in Client |->
  {ClientIP(Arriving(c, f, p, real)) : f \in Forgery, p \in Route, real \in Client \cup {None}}]

-----------------------------------------------------------------------------
(* The login limiter                                                       *)

NoFailures == [count |-> 0, first |-> 0]

\* Whether a window that began with f.first is over.
Over(f, window) == f.count > 0 /\ now - f.first > window

Rolled(f, window) == IF Over(f, window) THEN NoFailures ELSE f

\* Slip: one failure more than the limit.
RateLimitedLate(a) ==
  \/ Rolled(global, GlobalFailWindow).count >= GlobalMaxFailures
  \/ Rolled(failures[a], FailWindow).count > MaxFailures

RateLimited(a) ==
  \/ Rolled(global, GlobalFailWindow).count >= GlobalMaxFailures
  \/ Rolled(failures[a], FailWindow).count >= MaxFailures

Counted(f, window) ==
  IF f.count = 0 \/ Over(f, window) THEN [count |-> 1, first |-> now]
                                    ELSE [f EXCEPT !.count = @ + 1]

Tracked(fs) == {a \in DOMAIN fs : fs[a].count > 0}

Pruned(fs) == [a \in DOMAIN fs |-> Rolled(fs[a], FailWindow)]

\* A new address finds the map full.
Full(fs, a) == fs[a].count = 0 /\ Cardinality(Tracked(fs)) >= MaxFailureEntries

\* recordFailure: a full map is pruned, and a new address is not tracked when
\* that makes no room.
RecordFailure(a) ==
  LET fs == IF Full(failures, a) THEN Pruned(failures) ELSE failures
  IN  /\ global' = Counted(global, GlobalFailWindow)
      /\ failures' = IF Full(fs, a) THEN fs ELSE [fs EXCEPT ![a] = Counted(@, FailWindow)]
      /\ tried' = [tried EXCEPT ![a] = Counted(@, FailWindow)]
      /\ untracked' = IF Full(fs, a) THEN untracked \cup {a} ELSE untracked

-----------------------------------------------------------------------------
NoSession == 0
Empty == [t \in Token |-> NoSession]

Expired(expiry) == expiry # NoSession /\ now > expiry

\* DELETE FROM sessions WHERE expires_at <= now, and its complement in Live.
Live(rows) == [t \in Token |-> IF rows[t] > now THEN rows[t] ELSE NoSession]

\* A store call may fail, and then changes nothing.
Fault(failed) == faults' = faults + (IF failed THEN 1 ELSE 0) /\ faults' <= MaxFaults

Idle == [r \in Request |-> "free"]

Init ==
  /\ now = 1 /\ up = FALSE /\ cred \in Credential
  /\ sessions = Empty /\ table = Empty /\ bound = None
  /\ failures = [a \in Client |-> NoFailures] /\ global = NoFailures
  /\ pc = Idle /\ tok = [r \in Request |-> None]
  /\ from = [r \in Request |-> None] /\ ip = [r \in Request |-> None]
  /\ leaving = {} /\ boots = 0 /\ faults = 0
  /\ issuer = [t \in Token |-> None] /\ expires = Empty
  /\ tried = [a \in Client |-> NoFailures] /\ untracked = {}
  /\ unbound = {} /\ owed = {} /\ out = {}

\* Time passes; what was tried in a window that ends with it is history.
Tick ==
  /\ now < MaxTime /\ now' = now + 1
  /\ tried' = [a \in Client |-> IF now + 1 - tried[a].first > FailWindow THEN NoFailures ELSE tried[a]]
  /\ untracked' = {a \in untracked : \/ tried'[a].count > 0
                                     \/ failures[a].count > 0 /\ now + 1 - failures[a].first <= FailWindow}
  /\ UNCHANGED <<up, cred, sessions, failures, global, table, bound, logins, leaving, boots, faults, history>>

\* Slip: the rows are kept whatever credential they were saved under.
RebindKeeping(c) == table

\* The rows Rebind leaves when the process runs under credential c.
Rebind(c) == IF bound = c THEN table ELSE Empty

\* NewManager and Persist.  Nothing else runs yet, so the calls are one step;
\* each may fail.  Without a successful Rebind no row is adopted.
Boot(c) ==
  /\ ~up /\ boots < MaxBoots
  /\ up' = TRUE /\ boots' = boots + 1 /\ cred' = c
  /\ \/ /\ Fault(FALSE)
        /\ bound' = c /\ table' = Live(Rebind(c)) /\ sessions' = table'
        /\ owed' = IF c = cred THEN owed ELSE {}
     \/ /\ Fault(TRUE)     \* Rebind, Live or DeleteExpired fails
        /\ owed' = {}
        /\ \/ bound' = bound /\ table' = table /\ sessions' = Empty
           \/ /\ bound' = c /\ table' = Rebind(c)
              /\ sessions' \in {Empty, Live(table')}
  /\ UNCHANGED <<now, failures, global, tally, logins, leaving, issuer, expires, unbound, out>>

\* The process ends, at any point of anything it was doing.
Stop ==
  /\ up /\ up' = FALSE
  /\ sessions' = Empty
  /\ failures' = [a \in Client |-> NoFailures] /\ global' = NoFailures
  /\ tried' = [a \in Client |-> NoFailures] /\ untracked' = {}
  /\ pc' = Idle /\ tok' = [r \in Request |-> None]
  /\ from' = [r \in Request |-> None] /\ ip' = [r \in Request |-> None]
  /\ leaving' = {}
  /\ UNCHANGED <<now, cred, table, bound, boots, faults, history>>

\* Login up to rateLimited, which also drops the windows that have run out.
Login(r) ==
  /\ up /\ pc[r] = "free"
  /\ \E c \in Client : \E a \in SeenAs[c] :
       /\ IF RateLimited(a)
          THEN UNCHANGED logins
          ELSE /\ pc' = [pc EXCEPT ![r] = "waiting"]
               /\ from' = [from EXCEPT ![r] = c] /\ ip' = [ip EXCEPT ![r] = a]
               /\ tok' = tok
       /\ failures' = IF Rolled(global, GlobalFailWindow).count >= GlobalMaxFailures
                      THEN failures
                      ELSE [failures EXCEPT ![a] = Rolled(@, FailWindow)]
  /\ global' = Rolled(global, GlobalFailWindow)
  /\ UNCHANGED <<now, up, cred, sessions, tally, table, bound, leaving, boots, faults, history>>

Hashing == {r \in Request : pc[r] = "hashing"}

\* The goroutine is done with its login.
Finish(r) ==
  /\ pc' = [pc EXCEPT ![r] = "free"]
  /\ from' = [from EXCEPT ![r] = None] /\ ip' = [ip EXCEPT ![r] = None]
  /\ tok' = [tok EXCEPT ![r] = None]

\* Slip: the password is hashed without a slot.
HashAtOnce(r) ==
  /\ pc[r] = "waiting"
  /\ pc' = [pc EXCEPT ![r] = "hashing"]
  /\ UNCHANGED <<now, up, cred, memory, table, bound, from, ip, tok, leaving, boots, faults, history>>

\* verifyPassword gets one of the slots.
TakeSlot(r) ==
  /\ pc[r] = "waiting" /\ Cardinality(Hashing) < HashSlots
  /\ pc' = [pc EXCEPT ![r] = "hashing"]
  /\ UNCHANGED <<now, up, cred, memory, table, bound, from, ip, tok, leaving, boots, faults, history>>

\* The client hangs up while it waits for a slot.
Shed(r) ==
  /\ pc[r] = "waiting" /\ Finish(r)
  /\ UNCHANGED <<now, up, cred, memory, table, bound, leaving, boots, faults, history>>

\* VerifyPassword cannot decode AUTH_PASSWORD_HASH, or newToken gets no random
\* bytes: an error that counts against nobody.
Fail(r) ==
  /\ pc[r] = "hashing" /\ Finish(r)
  /\ UNCHANGED <<now, up, cred, memory, table, bound, leaving, boots, faults, history>>

\* Wrong user name or password.
Refuse(r) ==
  /\ pc[r] = "hashing" /\ Finish(r)
  /\ RecordFailure(ip[r])
  /\ UNCHANGED <<now, up, cred, sessions, table, bound, leaving, boots, faults, history>>

\* The critical section of a successful Login.
Issue(r) ==
  /\ pc[r] = "hashing"
  /\ \E t \in Token :
       /\ issuer[t] = None
       /\ sessions' = [sessions EXCEPT ![t] = now + TTL]
       /\ pc' = [pc EXCEPT ![r] = "saving"] /\ tok' = [tok EXCEPT ![r] = t]
       /\ issuer' = [issuer EXCEPT ![t] = cred]
       /\ expires' = [expires EXCEPT ![t] = now + TTL]
       /\ unbound' = IF bound = cred THEN unbound ELSE unbound \cup {t}
  /\ failures' = [failures EXCEPT ![ip[r]] = NoFailures]
  /\ global' = NoFailures
  /\ tried' = [tried EXCEPT ![ip[r]] = NoFailures] /\ untracked' = untracked \ {ip[r]}
  /\ UNCHANGED <<now, up, cred, table, bound, from, ip, leaving, boots, faults, owed, out>>

\* store.Save, then the cookie: only now does the client know its token.
Save(r) ==
  /\ pc[r] = "saving" /\ Finish(r)
  /\ \E failed \in BOOLEAN :
       /\ Fault(failed)
       /\ table' = IF failed THEN table ELSE [table EXCEPT ![tok[r]] = expires[tok[r]]]
       /\ owed' = IF failed \/ tok[r] \in unbound THEN owed ELSE owed \cup {tok[r]}
  /\ UNCHANGED <<now, up, cred, memory, bound, leaving, boots, issuer, expires, unbound, out>>

\* Tokens a client has got: issued, and not in a login that is still saving.
Handed == {t \in Token : issuer[t] # None /\ \A r \in Request : tok[r] # t}

\* Logout, up to its unlock.
Logout(t) ==
  /\ up /\ t \in Handed \ leaving
  /\ sessions' = [sessions EXCEPT ![t] = NoSession]
  /\ leaving' = leaving \cup {t}
  /\ owed' = owed \ {t}
  /\ UNCHANGED <<now, up, cred, failures, global, tally, table, bound, logins, boots, faults, issuer, expires, unbound, out>>

\* Slip: the row is left in the table.
ForgetMemoryOnly(t) ==
  /\ t \in leaving /\ leaving' = leaving \ {t}
  /\ out' = out \cup {t}
  /\ UNCHANGED <<now, up, cred, memory, table, bound, logins, boots, faults, issuer, expires, unbound, owed>>

\* Logout's store.Delete and its answer.
Forget(t) ==
  /\ t \in leaving /\ leaving' = leaving \ {t}
  /\ \E failed \in BOOLEAN :
       /\ Fault(failed)
       /\ table' = IF failed THEN table ELSE [table EXCEPT ![t] = NoSession]
       /\ out' = IF failed THEN out ELSE out \cup {t}
  /\ UNCHANGED <<now, up, cred, memory, bound, logins, boots, issuer, expires, unbound, owed>>

\* Whether a request that carries token t passes Middleware.
Authenticated(t) == up /\ sessions[t] # NoSession /\ ~Expired(sessions[t])

\* Authenticated drops a session that has run out; that store.Delete may fail
\* or be cut off makes no difference, Live refuses the row as well.
DropExpired(t) ==
  /\ up /\ Expired(sessions[t])
  /\ sessions' = [sessions EXCEPT ![t] = NoSession]
  /\ table' \in {table, [table EXCEPT ![t] = NoSession]}
  /\ UNCHANGED <<now, up, cred, failures, global, tally, bound, logins, leaving, boots, faults, history>>

\* Slip: the reaper takes the moment of issue for the moment of expiry.
ReapIssued ==
  /\ up
  /\ sessions' = [t \in Token |-> IF now + TTL > sessions[t] THEN NoSession ELSE sessions[t]]
  /\ failures' = Pruned(failures)
  /\ table' \in {table, Live(table)}
  /\ UNCHANGED <<now, up, cred, global, tally, bound, logins, leaving, boots, faults, history>>

\* reap: the map under the mutex, then DeleteExpired, which may fail.
Reap ==
  /\ up
  /\ sessions' = [t \in Token |-> IF Expired(sessions[t]) THEN NoSession ELSE sessions[t]]
  /\ failures' = Pruned(failures)
  /\ table' \in {table, Live(table)}
  /\ UNCHANGED <<now, up, cred, global, tally, bound, logins, leaving, boots, faults, history>>

Next ==
  \/ Tick \/ Stop \/ Reap
  \/ \E c \in Credential : Boot(c)
  \/ \E r \in Request : Login(r) \/ TakeSlot(r) \/ Shed(r) \/ Fail(r) \/ Refuse(r) \/ Issue(r) \/ Save(r)
  \/ \E t \in Token : Logout(t) \/ Forget(t) \/ DropExpired(t)

Spec == Init /\ [][Next]_vars

-----------------------------------------------------------------------------
(* Properties                                                              *)

Counter == {NoFailures} \cup [count : Nat \ {0}, first : Nat]

\* Types, and at most HashSlots password hashes (64 MiB each) at a time.
TypeOK ==
  /\ now \in Nat \ {0} /\ up \in BOOLEAN /\ cred \in Credential
  /\ sessions \in [Token -> Nat] /\ table \in [Token -> Nat]
  /\ bound \in Credential \cup {None}
  /\ failures \in [Client -> Counter] /\ global \in Counter
  /\ tried \in [Client -> Counter] /\ untracked \subseteq Client
  /\ pc \in [Request -> {"free", "waiting", "hashing", "saving"}]
  /\ from \in [Request -> Client \cup {None}] /\ ip \in [Request -> Client \cup {None}]
  /\ \A r \in Request : pc[r] # "free" => ip[r] \in Client
  /\ tok \in [Request -> Token \cup {None}]
  /\ \A r \in Request : pc[r] = "saving" => tok[r] \in Token
  /\ leaving \subseteq Token /\ boots \in Nat /\ faults \in Nat
  /\ issuer \in [Token -> Credential \cup {None}] /\ expires \in [Token -> Nat]
  /\ unbound \subseteq Token /\ owed \subseteq Token /\ out \subseteq Token
  /\ Cardinality(Hashing) <= HashSlots

\* A token that passes was issued under the credential the process runs with,
\* through restarts, rotations of AUTH_PASSWORD_HASH and failing store calls;
\* the exception are tokens issued by a process whose own Rebind had failed.
BoundToCredential ==
  \A t \in Token : Authenticated(t) /\ t \notin unbound => issuer[t] = cred

\* After a logout has deleted its row the token never passes again, not even
\* in a later process that adopts the table.
LoggedOutStaysOut == \A t \in out : ~Authenticated(t)

\* A restart does not sign anyone out, nor do the reaper and lazy expiry: a
\* saved session passes until it expires, is logged out, the credential is
\* changed or the store fails.
SessionsSurvive == \A t \in owed : up /\ now < expires[t] => Authenticated(t)

\* However logins are interleaved, the wrong passwords an address tries in a window
\* beyond the limit are fewer than the goroutines that serve logins: rateLimited and
\* recordFailure are two critical sections, and only attempts between them are
\* missed.  The exception is an address the full failure map did not take in, which
\* nothing but the global limit holds back; that one is overshot by no more.
OvershootBounded ==
  /\ \A a \in Client \ untracked :
       tried[a].count < MaxFailures + Cardinality(Request)
  /\ global.count < GlobalMaxFailures + Cardinality(Request)

\* Whatever X-Forwarded-For a client sends and however many of our proxies
\* pass it on, its login is counted against its own address.
CountedAgainstClient == \A r \in Request : ip[r] = from[r]

-----------------------------------------------------------------------------
(* The inductive invariant behind these properties, in parts               *)

\* A login has a token from its critical section to the end of store.Save, and
\* nothing of a process outlives it.
LoginShape ==
  /\ \A r \in Request : pc[r] = "saving" <=> tok[r] # None
  /\ ~up => /\ \A r \in Request : pc[r] = "free"
            /\ \A t \in Token : sessions[t] = NoSession
            /\ leaving = {}

\* A token that has not been drawn is nowhere.
Fresh ==
  \A t \in Token : issuer[t] = None =>
    /\ sessions[t] = NoSession /\ table[t] = NoSession
    /\ t \notin leaving \cup owed \cup out \cup unbound
    /\ \A r \in Request : tok[r] # t

\* Memory holds tokens of the running credential, the table those of the
\* credential it is bound to; a login in progress may save only if these agree.
Bindings ==
  \A t \in Token \ unbound :
    /\ sessions[t] # NoSession => issuer[t] = cred
    /\ table[t] # NoSession => issuer[t] = bound
    /\ \A r \in Request : tok[r] = t => bound = cred /\ issuer[t] = cred

\* No login will save a token that is being logged out or has been.
NoReturn ==
  /\ \A t \in leaving \cup out : sessions[t] = NoSession /\ \A r \in Request : tok[r] # t
  /\ \A t \in out : table[t] = NoSession

\* What is owed is in the table, and in memory while a process runs, unchanged
\* until it expires; so is in memory what is about to be saved.
Kept ==
  /\ \A t \in owed :
       /\ bound = cred /\ t \notin leaving
       /\ now < expires[t] => table[t] = expires[t] /\ (up => sessions[t] = expires[t])
  /\ \A r \in Request : \A t \in Token :
       tok[r] = t /\ now < expires[t] => sessions[t] = expires[t]

\* Logins that have passed the limiter and not been counted yet.
Attempts(a) == {r \in Request : pc[r] \in {"waiting", "hashing"} /\ ip[r] = a}
Pending == {r \in Request : pc[r] \in {"waiting", "hashing"}}

\* What was tried and what may still be; until it is turned away by a full map the
\* limiter knows all that an address has tried.
Attempted ==
  /\ \A a \in Client \ untracked :
       /\ tried[a] = Rolled(failures[a], FailWindow)
       /\ tried[a].count + Cardinality(Attempts(a)) < MaxFailures + Cardinality(Request)
  /\ global.count + Cardinality(Pending) < GlobalMaxFailures + Cardinality(Request)

IInv == /\ TypeOK /\ CountedAgainstClient
        /\ LoginShape /\ Fresh /\ Bindings /\ NoReturn /\ Kept /\ Attempted

=============================================================================
