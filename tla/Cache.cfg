\* Two requests, with Redis and without; no symmetry: a temporal property.
\* The commits run out, so the system may stop.
SPECIFICATION FairCacheSpec
CONSTANTS
  Handlers = {r1, r2}
  Queries = {q1, q2}
  Ttl = 2
  MaxVersion = 3
INVARIANTS CacheTypeOK StaleOnlyWhenOvertaken
PROPERTY Settles
CHECK_DEADLOCK FALSE
