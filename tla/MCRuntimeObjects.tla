-------------------------- MODULE MCRuntimeObjects --------------------------
(***************************************************************************)
(* RuntimeConfigs for RuntimeObjects.  The parts that do not interact vary *)
(* one after the other, the rest of the properties stay as in Plain.       *)
(***************************************************************************)
EXTENDS RuntimeObjects

Name(base, protocol, numbers) == [base |-> base, protocol |-> protocol, numbers |-> numbers]
Spec(name, containerPort, protocol, nodePort) ==
  [name |-> name, containerPort |-> containerPort, protocol |-> protocol, nodePort |-> nodePort]

Http == Spec(Name("http", "", <<>>), 80, "tcp", 0)

\* Given names, some of which look like made up ones, and none.
PortSpecs ==
  {Http, Spec(Name("http", "", <<1>>), 80, "tcp", 30000), Spec(Name("http", "", <<1, 1>>), 81, "", 32768),
   Spec(NoName, 80, "", 29999), Spec(NoName, 80, "udp", 32767),
   Spec(Name("", "tcp", <<80>>), 82, "tcp", 0)}

Mount(name, volumeName) == [name |-> name, volumeName |-> volumeName]
Mounts == {Mount("one", ""), Mount("two", ""), Mount("one", "vol"), Mount("two", "one")}

UpTo(S, n) == BoundedSeq(S, n)

NoService == [given |-> FALSE, ports |-> <<>>, type |-> ""]
NoAccount == [given |-> FALSE, create |-> "", name |-> ""]
Storage(vct, subpath) ==
  [enabled |-> TRUE, size |-> TRUE, mountPath |-> TRUE,
   volumeClaimTemplateName |-> vct, dataSubpath |-> subpath]

Plain ==
  [replicas |-> TRUE, image |-> TRUE, ports |-> <<Http>>,
   storage |-> Storage("data", FALSE), initContainer |-> TRUE, configFiles |-> TRUE,
   configMounts |-> <<>>, secretMounts |-> <<>>, service |-> NoService,
   serviceAccount |-> NoAccount]

Missing ==
  {[Plain EXCEPT !.replicas = FALSE], [Plain EXCEPT !.image = FALSE],
   [Plain EXCEPT !.storage.enabled = FALSE], [Plain EXCEPT !.storage.size = FALSE],
   [Plain EXCEPT !.storage.mountPath = FALSE]}

WithPorts == {[Plain EXCEPT !.ports = p] : p \in UpTo(PortSpecs, 4)}

WithMounts ==
  {[Plain EXCEPT !.configMounts = c, !.secretMounts = s, !.storage = Storage(v, d), !.initContainer = i] :
     c \in UpTo(Mounts, 2), s \in UpTo(Mounts, 2), v \in {"", "data"},
     d \in BOOLEAN, i \in BOOLEAN}

Accounts == {NoAccount} \cup [given : {TRUE}, create : {"", "true", "false"}, name : {"", "own"}]
Services ==
  {NoService} \cup [given : {TRUE},
                   ports : UpTo({Spec(NoName, 80, "", 0), Spec(NoName, 80, "", 30080)}, 2),
                   type : {"", "ClusterIP", "NodePort", "None"}]

WithAccount ==
  {[Plain EXCEPT !.serviceAccount = a, !.service = s, !.configFiles = f] :
     a \in Accounts, s \in Services, f \in BOOLEAN}

AllConfigs == Missing \cup WithPorts \cup WithMounts \cup WithAccount
=============================================================================
