CONSTANTS
  Users = {u1}
  Passwords = {w1, w2}
  Servers = {s1}
  Commands = {}
  Environments <- NoEnv
  Configs <- PlainConfigs
  Foreign = Foreign
  Sids = {d1, d2, d3}
  MaxChanges = 3
  Faults = {}
  NoUser = NoUser
  NoPassword = NoPassword
  NoFile = NoFile
  Junk = Junk
SPECIFICATION Spec
PROPERTY LogoutStays
