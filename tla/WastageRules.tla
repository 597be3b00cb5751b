---------------------------- MODULE WastageRules ----------------------------
(***************************************************************************)
(* What a wastage scan computes: azure_inventory.py normalises the rows of *)
(* the Azure Resource Graph, and each rule of wastage/rules/azure.py looks *)
(* at one normalised row and the price catalogue and returns a finding or  *)
(* nothing.  Pure operators.  A raw row has its common fields and the ones *)
(* its type needs; Nil is a missing or null field, Blank the empty text,   *)
(* Bad what no number can be read from.                                    *)
(***************************************************************************)
EXTENDS Integers, FiniteSets

CONSTANTS Nil, Blank, Bad,
          Price,        \* the catalogue: <<category, region, sku>> to price
          NonProdRgs,   \* resource groups whose name has dev, test, stage,
                        \* staging, uat or qa somewhere in it
          MaxAgeDays    \* 180

\* The code's "or": a missing, null or empty value gives way to the default.
OrElse(v, default) == IF v \in {Nil, Blank} THEN default ELSE v

\* Names are <<name, spelling>>: str.lower() forgets the spelling, and for a
\* region "West Europe" and "westeurope" are spellings too.
Lower(name) == name[1]

(***************************************************************************)
(* azure_inventory.py: one query and one normaliser per resource type.     *)
(***************************************************************************)
\* What the KQL queries project besides the common columns, as far as a
\* normaliser reads it.
Columns ==
  [disks |-> {"managedBy", "diskSizeGb", "sku"}, public_ips |-> {"skuName", "ipConfiguration"},
   nics |-> {"virtualMachine"}, snapshots |-> {"diskSizeGb", "sku", "timeCreated"},
   vms |-> {"vmSize", "osDiskId", "dataDisks", "powerState"}, aks |-> {"agentPoolProfiles"},
   asps |-> {"skuName"}, storage_accounts |-> {"kind", "skuName"}, redis |-> {"skuCapacity"}]

\* Mutant: the id keeps its letter case.
CommonCaseKept(raw) ==
  [account_id |-> raw.subscriptionId, resource_id |-> raw.id,
   resource_group |-> Lower(raw.resourceGroup), region |-> Lower(raw.location)]

Common(raw) ==
  [account_id |-> raw.subscriptionId, resource_id |-> Lower(raw.id),
   resource_group |-> Lower(raw.resourceGroup), region |-> Lower(raw.location)]

NormalizeDisk(raw) ==
  [managed_by |-> OrElse(raw.managedBy, Blank), size_gb |-> OrElse(raw.diskSizeGb, 0),
   sku |-> OrElse(raw.sku, "Standard_LRS")]
NormalizePublicIp(raw) ==
  [sku_name |-> OrElse(raw.skuName, "Basic"), ip_configuration |-> raw.ipConfiguration]
NormalizeNic(raw) == [virtual_machine |-> raw.virtualMachine]
NormalizeSnapshot(raw) ==
  [size_gb |-> OrElse(raw.diskSizeGb, 0), sku |-> OrElse(raw.sku, "Standard_LRS"),
   time_created |-> raw.timeCreated]
\* A power state is <<prefix, state>>, "PowerState/deallocated" for one.
NormalizeVm(raw) ==
  [power_state |-> OrElse(raw.powerState, <<Blank, Blank>>)[2], vm_size |-> OrElse(raw.vmSize, Blank),
   attached_disk_ids |-> ({raw.osDiskId} \cup raw.dataDisks) \ {Nil, Blank}]
NormalizeAks(raw) == [pool_counts |-> {OrElse(c, 0) : c \in OrElse(raw.agentPoolProfiles, {})}]
NormalizeAsp(raw) == [sku_name |-> OrElse(raw.skuName, Blank)]
NormalizeStorage(raw) ==
  [kind |-> OrElse(raw.kind, Blank), sku_name |-> OrElse(raw.skuName, Blank)]
NormalizeRedis(raw) == [sku_capacity |-> OrElse(raw.skuCapacity, 0)]

\* float() and int() raise on what is no number, and the row is skipped.
Malformed(raw) ==
  CASE raw.type \in {"disks", "snapshots"} -> raw.diskSizeGb = Bad
    [] raw.type = "aks" -> Bad \in OrElse(raw.agentPoolProfiles, {})
    [] raw.type = "redis" -> raw.skuCapacity = Bad
    [] OTHER -> FALSE

\* _RESOURCE_QUERIES: the normaliser of each type.
Detail(raw) ==
  CASE raw.type = "disks" -> NormalizeDisk(raw)
    [] raw.type = "public_ips" -> NormalizePublicIp(raw)
    [] raw.type = "nics" -> NormalizeNic(raw)
    [] raw.type = "snapshots" -> NormalizeSnapshot(raw)
    [] raw.type = "vms" -> NormalizeVm(raw)
    [] raw.type = "aks" -> NormalizeAks(raw)
    [] raw.type = "asps" -> NormalizeAsp(raw)
    [] raw.type = "storage_accounts" -> NormalizeStorage(raw)
    [] raw.type = "redis" -> NormalizeRedis(raw)

\* stream_inventory, over the rows of the queries that succeeded.
Inventory(raws) == {[type |-> raw.type, common |-> Common(raw), detail |-> Detail(raw)] :
                      raw \in {r \in raws : ~Malformed(r)}}

(***************************************************************************)
(* pricing.lookup: 0 for whatever is not in the catalogue, never an error. *)
(***************************************************************************)
Lookup(category, sku, region) ==
  IF <<category, region, sku>> \in DOMAIN Price THEN Price[<<category, region, sku>>] ELSE 0

(***************************************************************************)
(* rules/azure.py.  A rule applies to one type, has a condition on the     *)
(* normalised row and an estimate of the monthly cost.                     *)
(***************************************************************************)
DiskOrphan(row) == row.type = "disks" /\ row.detail.managed_by = Blank
PublicIpUnattached(row) == /\ row.type = "public_ips"
                           /\ row.detail.sku_name = "Standard"
                           /\ row.detail.ip_configuration = Nil
PublicIpBasicSku(row) == row.type = "public_ips" /\ row.detail.sku_name = "Basic"
NicOrphan(row) == row.type = "nics" /\ row.detail.virtual_machine = Nil
\* time_created as an age in days; a text that is no time gives no finding.
SnapshotOld(row) == /\ row.type = "snapshots"
                    /\ row.detail.time_created \notin {Nil, Blank, Bad}
                    /\ row.detail.time_created > MaxAgeDays
VmStoppedWithDisks(row) == /\ row.type = "vms"
                           /\ row.detail.power_state = "deallocated"
                           /\ row.detail.attached_disk_ids # {}
AksIdleNodepool(row) == row.type = "aks" /\ 0 \in row.detail.pool_counts
\* The pattern ^(S[1-3]|P\d) in any letter case; the catalogue's keys have one.
AspOversizedNonprod(row) == /\ row.type = "asps"
                            /\ row.detail.sku_name \in {"S1", "S2", "S3", "P1v3", "p1v3"}
                            /\ row.common.resource_group \in NonProdRgs
StorageLegacyKind(row) == row.type = "storage_accounts" /\ row.detail.kind = "Storage"

\* Mutant: LRS, which the remediation recommends, is flagged too.
StorageAnyReplicaNonprod(row) ==
  /\ row.type = "storage_accounts"
  /\ row.detail.sku_name \in {"Standard_RAGRS", "Standard_GRS", "Standard_LRS"}
  /\ row.common.resource_group \in NonProdRgs

StorageRagrsNonprod(row) ==
  /\ row.type = "storage_accounts"
  /\ row.detail.sku_name \in {"Standard_RAGRS", "Standard_GRS"}
  /\ row.common.resource_group \in NonProdRgs

Rules == {"disk.orphan", "public_ip.unattached", "public_ip.basic_sku", "nic.orphan",
          "snapshot.old", "vm.stopped_with_disks", "aks.idle_nodepool",
          "asp.oversized_nonprod", "storage.legacy_kind", "storage.ragrs_nonprod"}

Holds(rule, row) ==
  CASE rule = "disk.orphan" -> DiskOrphan(row)
    [] rule = "public_ip.unattached" -> PublicIpUnattached(row)
    [] rule = "public_ip.basic_sku" -> PublicIpBasicSku(row)
    [] rule = "nic.orphan" -> NicOrphan(row)
    [] rule = "snapshot.old" -> SnapshotOld(row)
    [] rule = "vm.stopped_with_disks" -> VmStoppedWithDisks(row)
    [] rule = "aks.idle_nodepool" -> AksIdleNodepool(row)
    [] rule = "asp.oversized_nonprod" -> AspOversizedNonprod(row)
    [] rule = "storage.legacy_kind" -> StorageLegacyKind(row)
    [] rule = "storage.ragrs_nonprod" -> StorageRagrsNonprod(row)

Estimate(rule, row) ==
  LET region == row.common.region
  IN CASE rule = "disk.orphan" ->
            Lookup("managed_disk", row.detail.sku, region) * row.detail.size_gb
       [] rule = "snapshot.old" ->
            Lookup("snapshot", row.detail.sku, region) * row.detail.size_gb
       [] rule = "public_ip.unattached" -> Lookup("public_ip", "Standard_Static", region)
       [] rule = "vm.stopped_with_disks" ->
            Lookup("virtual_machine", row.detail.vm_size, region)
       [] rule = "asp.oversized_nonprod" ->
            Lookup("app_service_plan", row.detail.sku_name, region)
       [] OTHER -> 0

\* _derive_finding_id and the columns a rescan updates.
FindingOf(rule, row) == [id |-> <<"azure", row.common.resource_id, rule>>,
                         rule |-> rule, resource_id |-> row.common.resource_id,
                         account |-> row.common.account_id, usd |-> Estimate(rule, row)]

\* run_scan's two loops: every rule on every row; a rule that raised would
\* skip its row only.
FindingsIn(raws) == UNION {{FindingOf(rule, row) : rule \in {u \in Rules : Holds(u, row)}} :
                             row \in Inventory(raws)}
=============================================================================
