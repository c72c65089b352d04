---------------------------- MODULE MCStoredData ----------------------------
EXTENDS StoredData
CONSTANTS p1, p2, h1, h2, c1, c2
Sym == Permutations(Labels) \cup Permutations(GroupNames)
MCHostOf == c1 :> h1 @@ c2 :> h2
Cast(pages, overlap, made, does) ==
  [pages |-> pages, overlap |-> overlap, made |-> made, does |-> does]
MCCasts == {
  Cast({p1}, 1, 0, {"fetch", "form", "groups", "remove", "hosts", "copy"}),
  Cast({p1}, 1, 0, {"fetch", "host", "groups", "remove", "order"}),
  Cast({p1}, 1, 0, {"fetch", "groups", "remove", "arrange", "rename"}),
  Cast({p1}, 1, 0, {"fetch", "form", "hosts", "copy", "use"}),
  Cast({p1, p2}, 1, 0, {"refetch", "form"}),
  Cast({p1, p2}, 1, 0, {"fetch", "groups", "arrange"}),
  Cast({p1}, 2, 0, {"fetch", "import"}),
  Cast({p1}, 1, 0, {"fetch", "import", "restart", "lose"}),
  Cast({p1}, 1, 0, {"fetch", "host", "hosts", "hello"}),
  Cast({p1}, 1, 0, {"host", "hello", "launch", "reload", "prune"}),
  Cast({p1}, 1, 2, {"launch", "reload", "save", "lose"}),
  Cast({p1}, 1, 2, {"host", "launch", "reload", "save", "menu", "wt"}),
  Cast({p1}, 1, 2, {"launch", "reload", "save", "prune", "rename"}),
  Cast({p1, p2}, 1, 1, {"launch", "save", "unset"}),
  Cast({p1}, 1, 1, {"launch", "reload", "save", "rekey", "unset", "menu", "host"}),
  Cast({p1}, 2, 2, {"host", "settings", "layer3"}),
  Cast({p1}, 2, 3, {"both", "settings", "layer3", "plain"}),
  Cast({p1}, 2, 1, {"settings", "layer4"}),
  Cast({p1}, 2, 3, {"settings", "layer4", "plain"}),
  Cast({p1}, 2, 2, {"settings", "terminal"}),
  Cast({p1}, 2, 3, {"settings", "auth"}),
  Cast({p1}, 2, 2, {"settings", "refuse", "terminal", "plain"}),
  Cast({p1}, 2, 2, {"settings", "auth", "desktop"}),
  Cast({p1}, 1, 2, {"settings", "ui"}),
  Cast({p1}, 1, 2, {"settings", "appearance"}),
  Cast({p1}, 1, 2, {"settings", "elevation"}),
  Cast({p1}, 1, 1, {"settings", "edit", "restart", "ui"}),
  Cast({p1}, 1, 0, {"enter", "many", "time", "newkey"}),
  Cast({p1, p2}, 1, 3, {"enter", "time"}),
  Cast({p1, p2}, 1, 2, {"key", "codes", "enter", "socket"}),
  Cast({p1, p2}, 1, 1, {"ready", "enter"}),
  Cast({p1}, 1, 2, {"ready", "enter", "time", "api", "socket"}),
  Cast({p1}, 1, 1, {"key", "socket", "revoke", "newkey"}),
  Cast({p1, p2}, 1, 1, {"key", "codes", "enter", "revoke"}),
  Cast({p1}, 1, 0, {"key", "codes", "time", "revoke"}),
  Cast({p1}, 1, 2, {"ready", "enter", "forever", "api", "time", "newkey"})}
=============================================================================
