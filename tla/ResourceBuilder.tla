-------------------------- MODULE ResourceBuilder --------------------------
(***************************************************************************)
(* internal/resourcebuilder: the pure functions that turn the spec of a    *)
(* Service resource into the Kubernetes objects it stands for.             *)
(*                                                                         *)
(* A configuration is a record that keeps the fields the builders branch   *)
(* on: whether spec.type is "database", the image, the ports with their    *)
(* optional NodePort, the hosts with their optional port, and the public   *)
(* flag.  The other fields (probes, volumes, resources, labels) only       *)
(* decorate the objects, and reach the image value here: two               *)
(* configurations that differ in one of them have two images.  A port's    *)
(* protocol is left out too: its TCP and its UDP entry are equal here.     *)
(***************************************************************************)
EXTENDS Naturals, Sequences, SequencesExt, SequenceFilters

CONSTANTS
  NotNeeded,   \* Err{Deployment,Service,Ingress}NotNeeded: nothing to build
  NoImage,     \* spec.config.image = ""
  NoPort       \* a nil *int32: no NodePort on a port, no port on a host

(* The objects the generic path manages, named by the role they have: the  *)
(* two core/v1 Services are "base" (<name>) and "nodeport"                 *)
(* (<name>-nodeport).                                                      *)
Kinds == {"deployment", "base", "nodeport", "ingress"}
Services == {"base", "nodeport"}

ContainerPort(p) == p.port

BuildDeployment(c) ==
  IF c.image = NoImage
    THEN NotNeeded
    ELSE [image |-> c.image, ports |-> [i \in DOMAIN c.ports |-> ContainerPort(c.ports[i])]]

(* Mistakes the properties below must notice: a NodePort's port is also    *)
(* served by the base Service; a nil host port is used as it is; only the  *)
(* first host gets a URL.                                                  *)
EveryPort(p) == TRUE

HostPortOnly(c, host) == host.port

(* BuildServices splits the ports between two Services and builds each one *)
(* only when a port falls to it.                                           *)
HasNodePort(p) == p.nodePort # NoPort
HasNoNodePort(p) == p.nodePort = NoPort

ServiceOf(type, ports) == IF ports = <<>> THEN NotNeeded ELSE [type |-> type, ports |-> ports]

BuildServices(c) ==
  [base     |-> ServiceOf("ClusterIP", Kept(c.ports, {p \in ToSet(c.ports) : HasNoNodePort(p)})),
   nodeport |-> ServiceOf("NodePort", Kept(c.ports, {p \in ToSet(c.ports) : HasNodePort(p)}))]

BackendPort(c, host) == IF host.port = NoPort THEN c.ports[1].port ELSE host.port

BuildIngress(c) ==
  IF c.hosts = <<>> \/ c.ports = <<>> \/ ~c.public
    THEN NotNeeded
    ELSE [rules |-> [i \in DOMAIN c.hosts |->
                       [host    |-> c.hosts[i].host,
                        service |-> "base",
                        port    |-> BackendPort(c, c.hosts[i])]]]

Desired(c, k) ==
  CASE k = "deployment" -> BuildDeployment(c)
    [] k = "ingress"    -> BuildIngress(c)
    [] OTHER            -> BuildServices(c)[k]

(* The URLs Reconcile writes to status.urls.                               *)
URLOf(h) == h.host

OneURL(c) == IF c.hosts # <<>> /\ c.public THEN <<URLOf(c.hosts[1])>> ELSE <<>>

NewURLs(c) ==
  IF c.hosts # <<>> /\ c.public THEN [i \in DOMAIN c.hosts |-> URLOf(c.hosts[i])] ELSE <<>>

-----------------------------------------------------------------------------
(* What the objects built from one configuration owe each other.           *)

PortList(service) == IF service = NotNeeded THEN <<>> ELSE service.ports
PortsOf(service) == ToSet(PortList(service))

(* BuildServices (service.go:24-71): every configured port is served by    *)
(* exactly one of the two Services, with the NodePort it asked for, and    *)
(* once, also where two entries differ in their protocol only.             *)
PortsPartitioned(c) ==
  LET b == BuildServices(c).base
      n == BuildServices(c).nodeport
  IN  /\ PortsOf(b) \union PortsOf(n) = ToSet(c.ports)
      /\ PortsOf(b) \cap PortsOf(n) = {}
      /\ Len(PortList(b)) + Len(PortList(n)) = Len(c.ports)

(* BuildIngress against BuildServices (ingress.go:23-27, :38): a rule that *)
(* falls back to the default port forwards to a port that the Service it   *)
(* names really exposes.                                                   *)
DefaultBackendExposed(c) ==
  LET ing == BuildIngress(c)
      svc == BuildServices(c)
  IN  ing # NotNeeded =>
        \A i \in DOMAIN ing.rules :
           c.hosts[i].port = NoPort =>
             \E p \in PortsOf(svc[ing.rules[i].service]) : p.port = ing.rules[i].port

(* The same for services without NodePorts, where the base Service has     *)
(* every port.                                                             *)
DefaultBackendExposedIfClusterIP(c) ==
  (\A p \in ToSet(c.ports) : HasNoNodePort(p)) => DefaultBackendExposed(c)

RoutedHosts(c) ==
  IF BuildIngress(c) = NotNeeded
    THEN <<>>
    ELSE [i \in DOMAIN BuildIngress(c).rules |-> BuildIngress(c).rules[i].host]

(* Reconcile's status against BuildIngress (service_controller.go:161-166, *)
(* ingress.go:14): status.urls names the hosts the Ingress routes and no   *)
(* others, in the order of the spec, unless the spec has hosts and no      *)
(* port: then nothing is routed and the hosts are announced all the same.  *)
RoutedHostsAnnounced(c) ==
  NewURLs(c) = RoutedHosts(c) <=> ~(c.public /\ c.hosts # <<>> /\ c.ports = <<>>)

=============================================================================
