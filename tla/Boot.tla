------------------------------- MODULE Boot -------------------------------
(***************************************************************************)
(* Network boot (crates/boot): a machine's firmware fetches iPXE over TFTP *)
(* by the file name its DHCP server gives it; iPXE fetches the bootstrap   *)
(* script, which chains into the manifest for the machine's architecture,  *)
(* which names a kernel and an initramfs and passes the server's own       *)
(* address to the agent.  A path and a URL are sequences of their parts.   *)
(***************************************************************************)
EXTENDS Naturals, Sequences, FiniteSets, FiniteSetsExt

CONSTANTS Machines, PublicUrls

VARIABLES url,      \* Listeners::public_url, as configured
          machine   \* per machine: stage, iPXE's build, what it has loaded

vars == <<url, machine>>

None == "none"
Empty == ""          \* what stands between two slashes, or after the last
NoFile == [kind |-> None, arch |-> None]

\* The build of iPXE a firmware can run, and what that iPXE can boot.
Builds == {"i386", "x86_64", "arm64"}
Runs(build) == IF build = "arm64" THEN "arm64" ELSE "x86_64"

\* Arch: i386 is an alias when it is read, x86_64 is what is written.
ReadArch(name) == IF name = "i386" THEN "x86_64" ELSE name
Writes(arch) == arch

\* tftp.rs: the file an iPXE build is served under.
BinaryOf(build) ==
    CASE build = "x86_64" -> "ipxe.efi"
      [] build = "arm64" -> "ipxe-arm64.efi"
      [] build = "i386" -> "undionly.kpxe"
boot_file(path) ==
    CASE path = <<"ipxe.efi">> -> [kind |-> "ipxe", arch |-> "x86_64"]
      [] path = <<"ipxe-arm64.efi">> -> [kind |-> "ipxe", arch |-> "arm64"]
      [] path = <<"undionly.kpxe">> -> [kind |-> "ipxe", arch |-> "i386"]
      [] Len(path) = 2 /\ path[1] \in {"x86_64", "arm64"} /\ path[2] \in {"vmlinuz", "initramfs"}
            -> [kind |-> path[2], arch |-> path[1]]
      [] OTHER -> NoFile

\* A DHCP server may give the name bare, absolute or with a leading dot.
Spellings(file) == {<<file>>, <<Empty, file>>, <<".", file>>, <<"..", Empty, file>>}

\* mutant: only a name given bare is found.
RelativeVerbatim(path) == path
\* read_req_open drops the parts that are empty or dots.
Relative(path) ==
    LET named == {i \in DOMAIN path : path[i] \notin {Empty, ".", ".."}}
        order == CHOOSE f \in [1 .. Cardinality(named) -> named] :
                    \A i, j \in DOMAIN f : i < j => f[i] < f[j]
    IN  [i \in DOMAIN order |-> path[order[i]]]

\* router trims the trailing slashes of the public URL once.
Base == LET filled == {i \in DOMAIN url : url[i] # Empty}
        IN  SubSeq(url, 1, IF filled = {} THEN 0 ELSE Max(filled))

\* The answer of the machine listener to a URL of this server: its routes are
\* what follows the host, whatever path the public URL has of its own.
Served(at) ==
    LET path == SubSeq(at, 2, Len(at))
    IN  CASE path = <<"boot", "boot.ipxe">> -> [kind |-> "bootstrap", arch |-> None]
          [] path = <<"boot", "manifest.ipxe">> -> [kind |-> "manifest", arch |-> None]
          [] Len(path) = 3 /\ path[1] = "boot" /\ path[2] \in Builds
                /\ path[3] \in {"vmlinuz", "initramfs"}
                -> [kind |-> path[3], arch |-> ReadArch(path[2])]
          [] OTHER -> NoFile

ScriptBase == Base

Off == [stage |-> "off", build |-> None, next |-> <<>>, kernel |-> None, initrd |-> None,
        server |-> <<>>]

Init ==
    /\ url \in PublicUrls
    /\ machine = [m \in Machines |-> Off]

Loads(m, to) == machine' = [machine EXCEPT ![m] = to] /\ UNCHANGED url

PowerOn(m) ==
    /\ machine[m].stage = "off"
    /\ \E build \in Builds : \E path \in Spellings(BinaryOf(build)) :
        Loads(m, [Off EXCEPT !.stage = "firmware", !.build = build, !.next = path])

\* The firmware's read request; one for an unknown file leaves it without one.
Tftp(m) ==
    /\ machine[m].stage = "firmware"
    /\ LET file == boot_file(Relative(machine[m].next))
       IN  Loads(m, [machine[m] EXCEPT !.stage = IF file = NoFile THEN "failed" ELSE "ipxe",
                                       !.next = Base \o <<"boot", "boot.ipxe">>])

\* iPXE fetches the bootstrap script, whose URL DHCP gives it.
Bootstrap(m) ==
    /\ machine[m].stage = "ipxe"
    /\ LET file == Served(machine[m].next)
       IN  Loads(m, [machine[m] EXCEPT !.stage = IF file = NoFile THEN "failed" ELSE "chain",
                                       !.next = ScriptBase \o <<"boot", "manifest.ipxe">>])

\* The manifest for ${buildarch}, and the two files it names.
Manifest(m) ==
    /\ machine[m].stage = "chain"
    /\ LET arch == Writes(ReadArch(machine[m].build))
           file == Served(machine[m].next)
           kernel == Served(ScriptBase \o <<"boot", arch, "vmlinuz">>)
           initrd == Served(ScriptBase \o <<"boot", arch, "initramfs">>)
       IN  Loads(m, IF NoFile \in {file, kernel, initrd}
                    THEN [machine[m] EXCEPT !.stage = "failed"]
                    ELSE [machine[m] EXCEPT !.stage = "booted", !.next = <<>>,
                                            !.kernel = kernel.arch, !.initrd = initrd.arch,
                                            !.server = ScriptBase])

\* The machine is switched off, or the agent reboots it.
PowerOff(m) == machine[m].stage # "off" /\ Loads(m, Off)

Next ==
    \E m \in Machines :
        PowerOn(m) \/ Tftp(m) \/ Bootstrap(m) \/ Manifest(m) \/ PowerOff(m)

---------------------------------------------------------------------------
\* With a public URL that has no path of its own, however it and the file names
\* are spelled, every file a machine is told to fetch is served; it boots a
\* kernel and an initramfs its processor runs, and its agent is given an address
\* of this server.
BootsItself ==
    Len(Base) = 1 => \A m \in Machines :
        /\ machine[m].stage # "failed"
        /\ machine[m].stage = "booted" =>
            /\ machine[m].kernel = Runs(machine[m].build)
            /\ machine[m].initrd = machine[m].kernel
            /\ machine[m].server = Base
=============================================================================
