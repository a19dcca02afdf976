SPECIFICATION Spec
CONSTANTS
  Procs = {p1, p2}
  TempNames = {n1, n2}
  NoFile = NoFile
  Partial = Partial
  None = None
  Keep = Keep
  HostNames = {"a", "b"}
  Addresses = {"10.0.0.1", "10.0.0.2 "}
  Webhooks = {"", "MY HOOK"}
  NoWebhook = ""
  Spaced = {"10.0.0.2 ", "MY HOOK"}
  Drivers = {"usbhid-ups", "snmp-ups"}
  DefaultDriver = "usbhid-ups"
  Commands = {"~/shutdown.sh"}
  DefaultCommand = "~/shutdown.sh"
  FormAnswers <- SomeAnswers
  Drafts <- SomeDrafts
  MaxHosts = 2
  MaxDrafts = 1
  MaxCrashes = 1
SYMMETRY Alike
INVARIANTS TypeOK NoLitter
PROPERTY SavesLoad
