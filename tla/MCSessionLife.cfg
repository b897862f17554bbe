SPECIFICATION Spec
CONSTANTS
  Sessions = {a, b, c}
  Monitored = {a}
  Children = {c}
  Hosts = {"ids", "none"}
  Sources = {"clear"}
  Keep = 1
  Fresh = 1
  MaxBeats = 2
  Pin = Pin
  Cli = Cli
INVARIANTS
  NoInheritedSilence
PROPERTIES
  RestIsQuiet
  KeepsBeating
