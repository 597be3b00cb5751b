---------------------------- MODULE MCConversions ----------------------------
(***************************************************************************)
(* The bounded inputs of Conversions.                                      *)
(***************************************************************************)
EXTENDS Conversions

MCAzureMap == <<<<"Virtual Machines", "compute">>, <<"Storage", "storage">>>>
MCGcpMap == <<<<"Compute Engine", "compute">>, <<"Cloud Storage", "storage">>>>
MCAwsMap == <<<<"AmazonEC2", "compute">>, <<"AmazonS3", "storage">>>>
MCWithin == {<<"Compute Engine", "Compute Engine">>, <<"AmazonEC2", "amazonec2-linux">>,
             <<"Compute Engine", "Compute Engine API">>}

MCAzureRows ==
  [SubscriptionId : {"sub"}, UsageDate : {20, Empty, Garbage, Float, Null},
   MeterCategory : {"Storage", Null}, MeterSubCategory : {Null}, Product : {"p"},
   ResourceGroup : {"rg", "rg2", Null}, CostInBillingCurrency : {Null, 0, 7, -3, Garbage},
   Cost : {Null, 5}, Currency : {Null, "USD", "EUR", "CHF"},
   tags : {Null, Garbage, <<<<"Project", "t">>>>, <<<<"Project", "t">>, <<"project", "u">>>>}]

MCLabels == {<<>>, <<<<"project", "a">>>>, <<Garbage, <<"team", "x">>, <<"project", "b">>>>,
             <<<<"project", Empty>>, <<"project", "c">>>>}
MCGcpUsages ==
  [project : {"p1", Null}, billing : {"ba"}, labels : MCLabels, sku : {"sku", Null},
   service : {"Compute Engine", "Compute Engine API", "Maps"}, currency : {"USD", "EUR"},
   start : {10, 11}, zone : {0, 2, Naive},
   cost : {-2, 0, 3, Null, Garbage}, credits : {Null, -1, -3, Garbage}]

MCAwsGroups ==
  [keys : {<<>>, <<"AmazonS3">>, <<"amazonec2-linux", "acc">>, <<"Tax", "acc">>},
   amount : {-1, 0, 4, Garbage, Empty, Null}, unit : {"USD"}, start : {20, Garbage}]

MCLlmRows ==
  [request_id : {"q1", Null}, spend : {Null, 0, 2, Garbage},
   startTime : {Null, Garbage} \cup [local : {5}, zone : {0, 1, Naive}],
   endTime : {Null, Garbage} \cup [local : {7}, zone : {0}],
   prompt_tokens : {Null, 3, Garbage}, completion_tokens : {2}, total_tokens : {Null, 0, 9},
   tags : {<<>>, <<<<"task:", "x">>>>, <<<<"team:", "y">>, <<"task:", Empty>>>>}]

MCCosts == -25..25
MCRates == {1, 5, 10, 13, 25, 105}
MCEcbTables == [{"USD", "JPY", "GBP"} -> {3, 8, 10, 11, 25, 1604}]

(***************************************************************************)
(* Resources of every type.                                                *)
(***************************************************************************)
MCSpellings == {"lower", "Mixed"}
Located == [subscriptionId : {"sub"}, id : {"vm1"} \X MCSpellings,
            resourceGroup : {"rg-dev", "rg-prod", "rg-contest"} \X {"Mixed"},
            location : {"westeurope", "eastus"} \X MCSpellings]
MCNonProd == {"rg-dev", "rg-contest"}
MCPrice == [k \in {"managed_disk", "snapshot", "public_ip", "virtual_machine", "app_service_plan"}
                  \X {"westeurope"}
                  \X {"Standard_LRS", "Premium_LRS", "Standard_Static", "D2", "S1", "P1v3"} |-> 3]

Sorts ==
  [type : {"disks"}, managedBy : {Nil, Blank, "vm"}, diskSizeGb : {Nil, 4, Bad},
   sku : {Nil, Blank, "Premium_LRS"}]
  \cup [type : {"public_ips"}, skuName : {Nil, Blank, "Basic", "Standard"}, ipConfiguration : {Nil, "nic"}]
  \cup [type : {"nics"}, virtualMachine : {Nil, "vm"}]
  \cup [type : {"snapshots"}, diskSizeGb : {Nil, 4, Bad}, sku : {Nil},
        timeCreated : {Nil, Blank, Bad, 179, 180, 181}]
  \cup [type : {"vms"}, vmSize : {Nil, "D2"}, osDiskId : {Nil, Blank, "os"}, dataDisks : {{}, {Nil, "d"}},
        powerState : {Nil, <<"PowerState", "deallocated">>, <<Blank, "deallocated">>,
                      <<"PowerState", "stopped">>}]
  \cup [type : {"aks"}, agentPoolProfiles : {Nil, {}, {3}, {0, 3}, {Nil}, {Blank, 3}, {Bad, 0}}]
  \cup [type : {"asps"}, skuName : {Nil, "B1", "S1", "P1v3", "p1v3"}]
  \cup [type : {"storage_accounts"}, kind : {Nil, Blank, "Storage", "StorageV2"},
        skuName : {Nil, "Standard_RAGRS", "Standard_LRS"}]
  \cup [type : {"redis"}, skuCapacity : {Nil, 1, Bad}]
MCResources == {place @@ sort : place \in Located, sort \in Sorts}

(***************************************************************************)
(* Tables of cost records: a month is 40 days of 4 ticks, a second 2.  The *)
(* end 703 is between two seconds: the gap before its seven days holds 674.*)
(***************************************************************************)
Candidates ==
  {[id |-> 1, provider |-> "azure", project |-> "p", service |-> "vm", start |-> 640, cost |-> 5, net |-> 5],
   [id |-> 2, provider |-> "gcp", project |-> "p", service |-> "vm", start |-> 638, cost |-> 9, net |-> 0],
   [id |-> 3, provider |-> "llm", project |-> "q", service |-> "gpt", start |-> 700, cost |-> 7, net |-> 7],
   [id |-> 4, provider |-> "aws", project |-> "q", service |-> "s3", start |-> 700, cost |-> 3, net |-> 3],
   [id |-> 5, provider |-> "azure", project |-> "q", service |-> "db", start |-> 639, cost |-> 2, net |-> 2],
   [id |-> 6, provider |-> "gcp", project |-> "p", service |-> "db", start |-> 576, cost |-> 6, net |-> 4],
   [id |-> 7, provider |-> "azure", project |-> "p", service |-> "vm", start |-> 674, cost |-> 8, net |-> 8]}
MCTables == SUBSET Candidates
MCEnds == {700, 702, 703, 704}
=============================================================================
