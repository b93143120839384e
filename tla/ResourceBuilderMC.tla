------------------------- MODULE ResourceBuilderMC -------------------------
(* Walks through every small configuration a user can write in the spec of *)
(* a Service resource, one field at a time, or every short command line,   *)
(* and states what the builders' results owe each other and the text.      *)
EXTENDS ResourceBuilder, CommandParser

CONSTANTS Image, Hosts, PortNumbers, NodePorts, MaxPorts, MaxHosts, MaxText

VARIABLES
  config,    \* the spec
  command    \* a command line in it: walked while the rest is blank

vars == <<config, command>>

Port == [port : PortNumbers, nodePort : NodePorts \union {NoPort}]
Host == [host : Hosts, port : PortNumbers \union {NoPort}]

(* An error is neither a Service nor an Ingress.                           *)
ASSUME NotNeededAssumption ==
  /\ NotNeeded \notin [type : {"ClusterIP", "NodePort"}, ports : Seq(Port)]
  /\ NotNeeded \notin [rules : Seq([host : Hosts, service : Services, port : PortNumbers])]

Config ==
  [database : BOOLEAN, image : {Image, NoImage}, ports : Seq(Port), hosts : Seq(Host),
   public : BOOLEAN]
CommandLine == [shell : Shells, text : Seq(Chars)]

(* The specs and the command lines a user can write, of any length.        *)
TypeOK == config \in Config /\ command \in CommandLine

Blank == [database |-> FALSE, image |-> NoImage, ports |-> <<>>, hosts |-> <<>>,
          public |-> FALSE]
NoCommand == [shell |-> NoShell, text |-> <<>>]

Init == config = Blank /\ command = NoCommand

SetImage == \E i \in {Image, NoImage} : config' = [config EXCEPT !.image = i]

TogglePublic == config' = [config EXCEPT !.public = ~@]

(* Nothing keeps the entries of either list apart: two ports of one number *)
(* may differ in their protocol or go to different Services, two hosts of  *)
(* one name in their path.                                                 *)
AddPort ==
  \E p \in Port :
    /\ Len(config.ports) < MaxPorts
    /\ config' = [config EXCEPT !.ports = Append(@, p)]

AddHost ==
  \E h \in Host :
    /\ Len(config.hosts) < MaxHosts
    /\ config' = [config EXCEPT !.hosts = Append(@, h)]

RemovePort == /\ config.ports # <<>>
              /\ config' = [config EXCEPT !.ports = Tail(@)]

RemoveHost == /\ config.hosts # <<>>
              /\ config' = [config EXCEPT !.hosts = Tail(@)]

ChooseShell == /\ command.text = <<>>
               /\ \E s \in Shells : command' = [command EXCEPT !.shell = s]

Type == /\ Len(command.text) < MaxText
        /\ \E c \in Chars : command' = [command EXCEPT !.text = Append(@, c)]

Erase == /\ command.text # <<>>
         /\ command' = [command EXCEPT !.text = Tail(@)]

Next ==
  \/ /\ command = NoCommand
     /\ SetImage \/ TogglePublic \/ AddPort \/ AddHost \/ RemovePort \/ RemoveHost
     /\ UNCHANGED command
  \/ /\ config = Blank
     /\ ChooseShell \/ Type \/ Erase
     /\ UNCHANGED config

Spec == Init /\ [][Next]_vars

(* BuildServices: no port is lost or served twice.                         *)
PortsServedOnce == PortsPartitioned(config)

(* BuildIngress: without NodePorts the default backend is a port of the    *)
(* base Service.                                                           *)
DefaultBackendServed == DefaultBackendExposedIfClusterIP(config)

(* Reconcile's status.urls: exactly the hosts the Ingress routes, unless   *)
(* there is no port.                                                       *)
RoutedAnnounced == RoutedHostsAnnounced(config)

(* parseCommand: words are split as they are quoted.                       *)
CommandsSplit == SplitAsQuoted(command)

(* parseCommand and BuildDeployment: nothing of a command line is lost.    *)
CommandsWhole == TextDelivered(command)

(* ingress.go:23, "Default to first service port if not specified": the    *)
(* backend a rule defaults to is a port of the Service it names.           *)
DefaultBackendIsServicePort == DefaultBackendExposed(config)

=============================================================================
