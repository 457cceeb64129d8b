CONSTANTS
  c1 = c1  c2 = c2  s1 = s1  s2 = s2  f1 = f1  f2 = f2  m1 = m1  m2 = m2
  NIL = NIL
  Conns = {c1, c2}
  Strings = {s1, s2}
  Fields = {f1, f2}
  Members = {m1, m2}
  Odd = {m2}
  Commands = {"SET", "SETXX", "SETNX", "GETDEL", "INCR", "RENAME", "MSET", "DEL", "FLUSHDB",
              "HSET", "HSETNX", "HINCRBY", "HDEL", "SADD", "SREM",
              "LPUSH", "RPUSH", "LPOP", "RPOP", "LSET"}
  MaxCommands = 3
  MaxReboots = 1
SPECIFICATION Spec
SYMMETRY Interchangeable
CHECK_DEADLOCK FALSE
INVARIANTS MatchesRedis ListIsQueue
