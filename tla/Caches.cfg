\* Three keys in a cache of two, two concurrent callers, one write to one key;
\* and three compiled queries in a cache of two.
SPECIFICATION CachesSpec
CONSTANTS
  Keys = {k1, k2, k3}
  Callers = {c1, c2}
  MaxSize = 2
  TTL = 1
  Patterns <- AnyKeys
  MaxTime = 2
  Written = {k1}
  MaxVersion = 1
  NoCall = NoCall
  Sqls = {s1, s2, s3}
  Compiled = {q1, q2}
  maxSize = 2
  ttlMs = 1
  maxAgeMs = 2
  Off = Off
  MaxNow = 3
INVARIANTS TypeOK CacheHonest LeastRecentlyUsed
SYMMETRY CacheSymmetry
CHECK_DEADLOCK FALSE
