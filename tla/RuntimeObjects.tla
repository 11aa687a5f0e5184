---------------------------- MODULE RuntimeObjects ----------------------------
(***************************************************************************)
(* What BuildObjects of pkg/builders/runtime makes of a component's        *)
(* properties: the objects, and the parts of the pod that refer to each    *)
(* other by name (claims, volumes, mounts, service account, ports).        *)
(*                                                                         *)
(* A string is a model string, "" when it is left out.  The resource name  *)
(* of the component is "app".  The name of a port is a record of its base  *)
(* and the numbers joined to it with "-", so that distinct records are     *)
(* distinct names; one that is, or looks as if, made of port and protocol  *)
(* has the protocol in the place of a base.  The restart stamp is in       *)
(* ConfigRollout; images, probes and other settings that are handed        *)
(* through are left out.                                                   *)
(***************************************************************************)
EXTENDS Integers, Sequences, SequencesExt

CONSTANT Configs \* the RuntimeConfigs of a component

Protocols == {"", "tcp", "udp", "sctp"}
PortNames == [base : STRING, protocol : Protocols, numbers : Seq(Int)]
PortSpec == [name : PortNames, containerPort : Int, protocol : Protocols, nodePort : Int]
ConfigMountSpec == [name : STRING, volumeName : STRING]

ASSUME ConfigsAssumption ==
  \A c \in Configs : /\ {c.ports, c.service.ports} \subseteq Seq(PortSpec)
                     /\ {c.configMounts, c.secretMounts} \subseteq Seq(ConfigMountSpec)

VARIABLES
  runtimeConfig, \* the properties of the component
  built          \* what BuildObjects returned, or NotBuilt

objectVars == <<runtimeConfig, built>>

NotBuilt == [status |-> "none"]
Refused == [status |-> "error"]

\* The name of a mount's volume.
VolumeName(m) == IF m.volumeName = "" THEN m.name ELSE m.volumeName

\* Mutant: a volume per mount.
AllVolumes(mounts) ==
  [i \in DOMAIN mounts |-> [name |-> VolumeName(mounts[i]), source |-> mounts[i].name]]

\* A mount whose volume name is taken adds none.
AddVolume(volumes, m) ==
  IF \E v \in DOMAIN volumes : volumes[v].name = VolumeName(m) THEN volumes
  ELSE Append(volumes, [name |-> VolumeName(m), source |-> m.name])

\* BuildVolumesFromConfigMaps and BuildVolumesFromSecrets: one volume per
\* name, from the first mount that gives it.
BuildVolumes(mounts) == FoldLeft(AddVolume, <<>>, mounts)

\* Mutant: the mount always names its source.
SourceMounts(mounts) == [i \in DOMAIN mounts |-> mounts[i].name]

\* BuildVolumeMountsFromConfigMaps and BuildVolumeMountsFromSecrets.
BuildVolumeMounts(mounts) == [i \in DOMAIN mounts |-> VolumeName(mounts[i])]

\* BuildVolumeClaimTemplates: the storage is enabled, as verifyParameters saw.
BuildVolumeClaimTemplates(storage) ==
  <<IF storage.volumeClaimTemplateName = "" THEN "data" ELSE storage.volumeClaimTemplateName>>

\* BuildVolumeMountsFromStorage: the claim, and its subpath.
BuildStorageMounts(storage) ==
  IF storage.volumeClaimTemplateName = "" THEN <<>>
  ELSE <<storage.volumeClaimTemplateName>>
       \o IF storage.dataSubpath THEN <<storage.volumeClaimTemplateName>> ELSE <<>>

\* buildRuntimeInitContainers: what the init container mounts.  The default
\* name stands for a nil pointer only, and the pointer to a field never is.
InitMounts(c) ==
  IF c.initContainer /\ c.storage.volumeClaimTemplateName # ""
  THEN <<c.storage.volumeClaimTemplateName>> ELSE <<>>

Suffixed(name, k) == IF k = 0 THEN name ELSE [name EXCEPT !.numbers = Append(@, k)]

\* Mutant: a counter is only tried once.
UnusedOnce(used, name) == IF Contains(used, name) THEN Suffixed(name, 1) ELSE name

\* The name itself, or with the first counter that makes it new.
Unused(used, name) ==
  LET k == CHOOSE k \in 0 .. Len(used) :
             /\ ~Contains(used, Suffixed(name, k))
             /\ \A l \in 0 .. k - 1 : Contains(used, Suffixed(name, l))
  IN Suffixed(name, k)

NoName == [base |-> "", protocol |-> "", numbers |-> <<>>]

\* The name of a port spec, or one made of its port and protocol.
PortName(spec) ==
  IF spec.name # NoName THEN spec.name
  ELSE [spec.name EXCEPT !.protocol = IF spec.protocol = "" THEN "tcp" ELSE spec.protocol,
                         !.numbers = <<spec.containerPort>>]

NodePorts == 30000 .. 32767

\* A node port is taken over if it is in the default range, whatever the type
\* of the service.
AddPort(ports, spec) ==
  Append(ports,
    [name |-> Unused([i \in DOMAIN ports |-> ports[i].name], PortName(spec)),
     port |-> spec.containerPort,
     nodePort |-> IF spec.nodePort \in NodePorts THEN spec.nodePort ELSE 0])

BuildServicePorts(specs) == FoldLeft(AddPort, <<>>, specs)

\* verifyParameters: the workload is a StatefulSet, so storage is mandatory.
verifyParameters(c) ==
  /\ c.replicas /\ c.image /\ c.ports # <<>>
  /\ c.storage.enabled /\ c.storage.size /\ c.storage.mountPath

\* ShouldBuildClientService: not for a service of type "None".
ShouldBuildClientService(s) == s.given /\ s.ports # <<>> /\ s.type # "None"

\* DeriveServiceAccountName: created only when the config asks for it.
DeriveServiceAccountName(sa) ==
  IF ~sa.given \/ sa.create # "true" THEN ""
  ELSE IF sa.name # "" THEN sa.name ELSE "app-sa"

Object(kind, name) == <<[kind |-> kind, name |-> name]>>

\* The objects in the order of BuildObjects.  Here an account is created
\* unless the config asks for none.
Objects(c) ==
  (IF c.configFiles THEN Object("ConfigMap", "app-config") ELSE <<>>)
  \o Object("StatefulSet", "app") \o Object("Service", "app-headless")
  \o (IF ShouldBuildClientService(c.service) THEN Object("Service", "app") ELSE <<>>)
  \o (IF c.serviceAccount.given /\ c.serviceAccount.create # "false"
      THEN Object("ServiceAccount", DeriveServiceAccountName(c.serviceAccount)) ELSE <<>>)

ObjectsInit == runtimeConfig \in Configs /\ built = NotBuilt

\* BuildObjects: the ports of the headless service are those of the
\* container, the client service has its own.
BuildObjects ==
  LET c == runtimeConfig
  IN /\ built = NotBuilt
     /\ built' = IF ~verifyParameters(c) THEN Refused
                 ELSE [status |-> "built",
                       objects |-> Objects(c),
                       claims |-> BuildVolumeClaimTemplates(c.storage),
                       volumes |-> BuildVolumes(c.configMounts) \o BuildVolumes(c.secretMounts),
                       initMounts |-> InitMounts(c),
                       mounts |-> BuildVolumeMounts(c.configMounts)
                                  \o BuildVolumeMounts(c.secretMounts)
                                  \o BuildStorageMounts(c.storage),
                       serviceAccountName |-> DeriveServiceAccountName(c.serviceAccount),
                       ports |-> BuildServicePorts(c.ports),
                       clientPorts |-> IF ShouldBuildClientService(c.service)
                                       THEN BuildServicePorts(c.service.ports) ELSE <<>>]
     /\ UNCHANGED runtimeConfig

ObjectsSpec == ObjectsInit /\ [][BuildObjects]_objectVars

-----------------------------------------------------------------------------
Built == built.status = "built"

\* The kinds of results, and what verifyParameters promises: what is built has
\* a StatefulSet with one claim, and ports.
ObjectsTypeOK ==
  /\ built.status \in {"none", "error", "built"}
  /\ Built => /\ Contains(built.objects, [kind |-> "StatefulSet", name |-> "app"])
              /\ Len(built.claims) = 1 /\ built.ports # <<>>

\* The note in BuildPodTemplateSpec, "Ensure volume names referenced by
\* container mounts exist in the volumes list": every mount of the pod, the
\* init container's too, has its volume or claim.
MountsResolve ==
  Built => \A i \in DOMAIN (built.mounts \o built.initMounts) :
    LET name == (built.mounts \o built.initMounts)[i]
    IN Contains(built.claims, name) \/ \E v \in DOMAIN built.volumes : built.volumes[v].name = name

\* The properties give no name to two volumes.
NamesApart(c) ==
  LET all == c.configMounts \o c.secretMounts
      kind(i) == i <= Len(c.configMounts)
  IN \A i, j \in DOMAIN all : VolumeName(all[i]) = VolumeName(all[j]) =>
       kind(i) = kind(j) /\ all[i].name = all[j].name

\* Unless the properties themselves reuse a name, the pod has each volume
\* once (several mounts may share it) and every mount shows what it asks for.
MountsShowTheirSource ==
  Built /\ NamesApart(runtimeConfig) =>
    LET all == runtimeConfig.configMounts \o runtimeConfig.secretMounts
    IN /\ \A v, w \in DOMAIN built.volumes :
            built.volumes[v].name = built.volumes[w].name => v = w
       /\ \A i \in DOMAIN all : \E v \in DOMAIN built.volumes :
            built.volumes[v] = [name |-> built.mounts[i], source |-> all[i].name]

\* Each spec has its port, in its place and under a name of its own.
Accepted(ports, specs) ==
  /\ Len(ports) = Len(specs)
  /\ \A i \in DOMAIN ports : ports[i].port = specs[i].containerPort
  /\ \A i, j \in DOMAIN ports : ports[i].name = ports[j].name => i = j

\* "Ensure the final name is unique within the service": whatever names the
\* specs give or leave out, made up ones included; no port is lost or swapped.
PortsAccepted ==
  Built => /\ Accepted(built.ports, runtimeConfig.ports)
           /\ built.clientPorts = <<>> \/ Accepted(built.clientPorts, runtimeConfig.service.ports)

\* The comment on NodePort, "Only set if Service Type is NodePort": none for the
\* headless service, which is of type ClusterIP, nor for a client service that
\* is not open on the nodes.  The API server refuses such a service.
NodePortsFit ==
  Built =>
    /\ \A i \in DOMAIN built.ports : built.ports[i].nodePort = 0
    /\ runtimeConfig.service.type \notin {"NodePort", "LoadBalancer"} =>
         \A i \in DOMAIN built.clientPorts : built.clientPorts[i].nodePort = 0

\* The comment on ServiceAccountSpec.Create, "Default: false": an account
\* nobody asked for is not built, and so none without a name.
AccountsAreAskedFor ==
  Built => \A i \in DOMAIN built.objects :
    built.objects[i].kind = "ServiceAccount" => runtimeConfig.serviceAccount.create = "true"

\* "Builds VolumeMounts derived from StorageSpec": the claim of an enabled
\* storage is mounted by the main container.
StorageIsMounted ==
  Built => \A i \in DOMAIN built.claims : Contains(built.mounts, built.claims[i])
=============================================================================
