--------------------------- MODULE RequestLimits ---------------------------
(***************************************************************************)
(* The attempts a caller may make (domain/rate-limit.ts): a table of fixed *)
(* windows, one bucket per key, in the order the keys were first seen.     *)
(* Time is relative: a bucket holds the ticks its window has left.         *)
(***************************************************************************)
EXTENDS Naturals, Sequences

CONSTANTS
  MaxIp,       \* logins a window allows from one address
  MaxUser,     \* and to one name
  Window,      \* its length, in ticks
  MaxBuckets   \* keys the table holds before it forgets some

ASSUME LimitAssumption ==
  /\ MaxIp \in Nat \ {0} /\ MaxUser \in Nat \ {0}
  /\ Window \in Nat \ {0} /\ MaxBuckets \in Nat \ {0}

MaxStrikes == 4

Expired(b) == b.left = 0
Keys(table) == {table[i].key : i \in DOMAIN table}
Bucket(table, key) == table[CHOOSE i \in DOMAIN table : table[i].key = key]

\* The buckets of some keys, in their order.
Kept(table, keys) ==
  LET kept[n \in 0..Len(table)] ==
        IF n = 0 THEN <<>>
        ELSE IF table[n].key \in keys THEN Append(kept[n - 1], table[n]) ELSE kept[n - 1]
  IN kept[Len(table)]
Without(table, key) == Kept(table, Keys(table) \ {key})
Live(table) ==
  Kept(table, {table[i].key : i \in {k \in DOMAIN table : ~Expired(table[k])}})

\* Mutant: the oldest key goes, whether or not another's window is over.
SweepOldest(table) ==
  IF Len(table) < MaxBuckets THEN table ELSE Tail(table)

\* A full table loses the windows that are over, then the oldest keys.
Sweep(table) ==
  IF Len(table) < MaxBuckets THEN table
  ELSE IF Len(Live(table)) < MaxBuckets THEN Live(table)
  ELSE SubSeq(Live(table), Len(Live(table)) - MaxBuckets + 2, Len(Live(table)))

\* Mutant: a window that is over stays in the table beside the new one.
OpenBeside(table, key) ==
  IF \E i \in DOMAIN table : table[i].key = key /\ ~Expired(table[i]) THEN table
  ELSE Append(table, [key |-> key, count |-> 0, left |-> Window, strikes |-> 0])

\* The key's bucket, or a new window in its place; a key not seen goes last.
Open(table, key) ==
  LET fresh(strikes) == [key |-> key, count |-> 0, left |-> Window, strikes |-> strikes]
  IN IF key \notin Keys(table) THEN Append(table, fresh(0))
     ELSE [i \in DOMAIN table |->
             IF table[i].key = key /\ Expired(table[i])
             THEN fresh(IF table[i].strikes = 0 THEN 0 ELSE table[i].strikes - 1)
             ELSE table[i]]

\* The last attempt of a window lengthens it.
Count(b, max) ==
  LET strikes == IF b.strikes < MaxStrikes THEN b.strikes + 1 ELSE MaxStrikes
      penalty == Window * 2^(strikes - 1)
      counted == [b EXCEPT !.count = @ + 1]
  IN IF counted.count < max THEN counted
     ELSE [counted EXCEPT !.strikes = strikes,
                          !.left = IF penalty > b.left THEN penalty ELSE b.left]

Opened(table, key) == Open(Sweep(table), key)
Allows(table, key, max) == Bucket(Opened(table, key), key).count < max
Consume(table, key, max) ==
  LET opened == Opened(table, key)
  IN [i \in DOMAIN opened |->
        IF opened[i].key = key /\ opened[i].count < max
        THEN Count(opened[i], max) ELSE opened[i]]

\* Both counters count, even when one refuses.
CheckLogin(table, ip, user) == Consume(Consume(table, ip, MaxIp), user, MaxUser)
IpAllowed(table, ip) == Allows(table, ip, MaxIp)
UserAllowed(table, ip, user) == Allows(Consume(table, ip, MaxIp), user, MaxUser)
ResetLogin(table, ip, user) == Without(Without(table, ip), user)

Elapse(table) ==
  [i \in DOMAIN table |-> [table[i] EXCEPT !.left = IF @ = 0 THEN 0 ELSE @ - 1]]
=============================================================================
