----------------------------- MODULE SessionKeys -----------------------------
(***************************************************************************)
(* xferry/security/keys.py: the table of ECDH session keys, ordered by     *)
(* last use and bounded, and the exchange route of handlers/notepad.py.    *)
(* derive_session and get_session_key read the clock before they take the  *)
(* lock, so readings reach the table out of order.                         *)
(***************************************************************************)
EXTENDS Integers, FiniteSets, SequencesExt, RequestChecks

CONSTANTS
  Clients,          \* threads
  SessionIds,
  MaxKeys, Ttl,     \* max_sessions and session_ttl_seconds
  MaxNow,          \* bound of the model
  NoKey

\* The constructor refuses both if they are not positive.
ASSUME KeysAssumption == MaxKeys \in Nat \ {0} /\ Ttl \in Nat \ {0}

VARIABLES
  now,
  table,      \* OrderedDict: sequence of [id, seen], oldest first
  call,       \* the call of each thread: its kind, id and clock reading
  lag,        \* history: longest time between a reading and the lock
  served      \* how long the key just handed out was idle, by its caller's reading

keyVars == <<now, table, call, lag, served>>

NoCall == [kind |-> "none"]
Listed(tab) == {tab[i].id : i \in DOMAIN tab}
Larger(a, b) == IF a > b THEN a ELSE b

KeyInit ==
  /\ now = 0 /\ table = << >> /\ call = [c \in Clients |-> NoCall]
  /\ lag = 0 /\ served = NoKey
-----------------------------------------------------------------------------
\* _note_exchange: the tests of the client's key.
ExchangeChecks ==
  << <<"raw_path", 400>>, <<"query", 400>>, <<"no_crypto", 501>>, <<"json", 400>>, <<"json_type", 400>>,
     <<"unknown", 400>>, <<"missing", 400>>, <<"type", 400>>, <<"base64", 400>>, <<"length", 400>>,
     <<"not_on_curve", 400>> >>

ExchangeRefused(c) ==
  /\ call[c] = NoCall
  /\ \E fault \in FaultsOf(ExchangeChecks) :
       call' = [call EXCEPT ![c] = [kind |-> "refused", status |-> Verdict(ExchangeChecks, {fault})]]
  /\ served' = NoKey /\ UNCHANGED <<now, table, lag>>

Refused(c) ==
  /\ call[c].kind = "refused" /\ call' = [call EXCEPT ![c] = NoCall]
  /\ served' = NoKey /\ UNCHANGED <<now, table, lag>>
-----------------------------------------------------------------------------
\* Entries are dropped from the oldest on, up to the first that is not expired.
Unexpired(tab, time) ==
  LET i == SelectInSeq(tab, LAMBDA r : r.seen > time - Ttl)
  IN  IF i = 0 THEN << >> ELSE SubSeq(tab, i, Len(tab))

\* _cleanup_sessions_unlocked
Cleanup(tab, time) ==
  LET kept == Unexpired(tab, time)
  IN  SubSeq(kept, Larger(1, Len(kept) - MaxKeys + 1), Len(kept))

Place(tab, id) == CHOOSE i \in DOMAIN tab : tab[i].id = id
Entry(tab, id) == tab[Place(tab, id)]
Without(tab, id) == SubSeq(tab, 1, Place(tab, id) - 1) \o SubSeq(tab, Place(tab, id) + 1, Len(tab))

\* The clock is read, then the lock is awaited.
Begin(c, kind, id) ==
  /\ call[c] = NoCall
  /\ call' = [call EXCEPT ![c] = [kind |-> kind, id |-> id, time |-> now]]
  /\ served' = NoKey /\ UNCHANGED <<now, table, lag>>

Locked(c, kind) ==
  /\ call[c].kind = kind
  /\ lag' = Larger(lag, now - call[c].time)
  /\ call' = [call EXCEPT ![c] = NoCall]

\* Identifiers are random; one that has left the table may be drawn again.
DeriveSession(c) ==
  /\ Locked(c, "derive")
  /\ LET time == call[c].time IN
     /\ call[c].id \notin Listed(table)
     /\ table' = Cleanup(Append(Cleanup(table, time), [id |-> call[c].id, seen |-> time]), time)
  /\ served' = NoKey /\ UNCHANGED now

\* Mutant: the table is not cleaned before the lookup.
CleanForNothing(tab, time) == tab

CleanFor(tab, time) == Cleanup(tab, time)

GetSessionKey(c) ==
  /\ Locked(c, "get")
  /\ LET time == call[c].time  id == call[c].id  tab == CleanFor(table, time) IN
     IF id \in Listed(tab)
     THEN /\ served' = time - Entry(tab, id).seen
          /\ table' = Append(Without(tab, id), [id |-> id, seen |-> time])
     ELSE table' = tab /\ served' = NoKey
  /\ UNCHANGED now

RemoveSession(id) ==
  /\ id \in Listed(table)
  /\ table' = Without(table, id)
  /\ served' = NoKey /\ UNCHANGED <<now, call, lag>>

\* active_session_count reads the clock under the lock.
CountSessions ==
  /\ table' = Cleanup(table, now)
  /\ served' = NoKey /\ UNCHANGED <<now, call, lag>>

KeyTick ==
  /\ now < MaxNow /\ now' = now + 1
  /\ served' = NoKey /\ UNCHANGED <<table, call, lag>>

KeyNext ==
  \/ \E c \in Clients :
       ExchangeRefused(c) \/ Refused(c) \/ DeriveSession(c) \/ GetSessionKey(c)
       \/ \E id \in SessionIds : Begin(c, "derive", id) \/ Begin(c, "get", id)
  \/ \E id \in SessionIds : RemoveSession(id)
  \/ CountSessions \/ KeyTick

KeySpec == KeyInit /\ [][KeyNext]_keyVars
-----------------------------------------------------------------------------
(* An expired entry may hide behind a live one, for the cleanup stops there; still, a   *)
(* key is handed out at most the longest wait for the lock later than its time to live  *)
(* after its last use.                                                                  *)
ServedWithinLag == served # NoKey => served < Ttl + lag
==============================================================================
