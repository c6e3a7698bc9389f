------------------------------- MODULE Devices -------------------------------
(***************************************************************************)
(* Peripheral service: PCI devices handed to VMs, with the memory driver   *)
(* (mock inventory) or the sysfs driver, which also moves a device to      *)
(* vfio-pci.  The driver that holds a device in the kernel (kernel) and    *)
(* the one its record shows (device.driver) are different things: binding  *)
(* is best effort and each of its three sysfs writes may fail.             *)
(***************************************************************************)
EXTENDS Api

CONSTANTS PciDevices,   \* entries of /sys/bus/pci/devices
          VMs           \* handles named in requests, 0 among them

ASSUME VMsAssumption == VMs \subseteq Int

VARIABLES sysfs,        \* sysfs driver, else the memory driver
          devices,      \* id -> [vm, driver]
          kernel        \* id -> driver that holds it in the kernel

dvVars == <<answer, sysfs, devices, kernel>>

NotAttached == 0
Vfio == "vfio-pci"

\* NewMemoryDriver's inventory, by the driver its records name.
Mock == [d \in {"gpu-0", "gpu-1", "nic-0", "usb-0"} |->
            [vm |-> NotAttached, driver |-> CASE d = "nic-0" -> "host"
                                              [] d = "usb-0" -> "none"
                                              [] OTHER -> Vfio]]

\* Of the PCI entries only those of a known class and with an IOMMU group.
Classes == {"01", "02", "03", "other", "short"}
classifyPCIDevice(class) == class \in {"01", "02", "03"}

scan(found) == [d \in found |-> [vm |-> NotAttached, driver |-> kernel[d]]]

DvInit ==
    /\ answer = Pending /\ sysfs \in BOOLEAN
    /\ kernel \in [PciDevices -> {"host", Vfio, "none"}]
    /\ \E class \in [PciDevices -> Classes], iommu \in SUBSET PciDevices :
          devices = IF sysfs THEN scan({d \in iommu : classifyPCIDevice(class[d])})
                             ELSE Mock

Ids == PciDevices \cup DOMAIN Mock

\* What listings show: the sysfs driver falls back on a fresh mock inventory,
\* whose devices it will not find when they are to be attached.
SysfsListDevices == IF devices = Empty THEN Mock ELSE devices
Shown == IF sysfs THEN SysfsListDevices ELSE devices
SysfsGetDevice(d) == Lookup(d, SysfsListDevices, 404)
GetDevice(d) == IF sysfs THEN SysfsGetDevice(d) ELSE Lookup(d, devices, 404)

\* The holder of the device after BindVFIO: unchanged when driver_override
\* fails, nobody when the probe fails after the unbind.
BindVFIO(d) == {kernel[d], "none", Vfio}

AttachDevice(d, vm) ==
    \/ ~sysfs /\ devices' = [devices EXCEPT ![d].vm = vm] /\ UNCHANGED kernel
    \/ /\ sysfs
       /\ \E k \in BindVFIO(d) : kernel' = [kernel EXCEPT ![d] = k]
       /\ devices' = [devices EXCEPT ![d] = [vm |-> vm, driver |-> Vfio]]

DetachDevice(d) == devices' = [devices EXCEPT ![d].vm = NotAttached] /\ UNCHANGED kernel

DvRefuse(code) == Reply(code) /\ UNCHANGED <<devices, kernel>>
\* Mutant: a known device is a free one.
DvFreeKnown(d) == d \in DOMAIN devices
DvFree(d) == d \in DOMAIN devices /\ devices[d].vm = NotAttached
DvAttached(d) == d \in DOMAIN devices /\ devices[d].vm # NotAttached

handleListDevices == DvRefuse(200)

handleAttachDevice ==
    \/ DvRefuse(400)
    \/ \E d \in Ids, vm \in VMs :
          \/ ~DvFree(d) /\ DvRefuse(409)
          \/ DvFree(d) /\ AttachDevice(d, vm) /\ Reply(200)

handleDetachDevice ==
    \E d \in Ids : \/ ~DvAttached(d) /\ DvRefuse(409)
                   \/ DvAttached(d) /\ DetachDevice(d) /\ Reply(200)

GrpcListDevices == DvRefuse(GrpcOK)

GrpcAttachDevice ==
    \E d \in Ids, vm \in VMs : \/ ~DvFree(d) /\ DvRefuse(GrpcError)
                               \/ DvFree(d) /\ AttachDevice(d, vm) /\ Reply(GrpcOK)

GrpcDetachDevice ==
    \E d \in Ids : \/ ~DvAttached(d) /\ DvRefuse(GrpcError)
                   \/ DvAttached(d) /\ DetachDevice(d) /\ Reply(GrpcOK)

DvNext ==
    /\ \/ handleListDevices \/ handleAttachDevice \/ handleDetachDevice
       \/ GrpcListDevices \/ GrpcAttachDevice \/ GrpcDetachDevice
       \/ \E d \in Ids : GetDevice(d) /\ UNCHANGED <<devices, kernel>>
    /\ UNCHANGED sysfs

DvSpec == DvInit /\ [][DvNext]_dvVars

-----------------------------------------------------------------------------
\* A device handed to a VM stays with it until it is detached: neither a second
\* attach, through REST or gRPC, nor its retry after a bind that failed half way
\* gives it to another VM or takes it from the driver that holds it.
HeldTillDetached ==
    [][\A d \in DOMAIN devices :
          DvAttached(d) /\ devices'[d].vm # NotAttached =>
              /\ devices'[d].vm = devices[d].vm
              /\ d \in PciDevices => kernel'[d] = kernel[d]]_dvVars

\* What the record of an attached device claims.  It fails: AttachDevice records
\* vfio-pci whether or not BindVFIO succeeded.
RecordIsTrue ==
    sysfs => \A d \in DOMAIN devices : DvAttached(d) => kernel[d] = devices[d].driver
==============================================================================
