---------------------------- MODULE MCKernelMain ----------------------------
(***************************************************************************)
(* Three machines of three CPUs.  The first has a controller with a disk    *)
(* and a drive, beside another function of the same device and a device     *)
(* without capabilities; the second has two controllers and a CPU that      *)
(* cannot be started; the third has its drive at the second port.           *)
(***************************************************************************)

EXTENDS KernelMain, TLC

Other(capabilities, multi) == [class |-> "other", capabilities |-> capabilities, multi |-> multi]
Ahci(capabilities) == [class |-> "AHCI", capabilities |-> capabilities, multi |-> FALSE]

MCMachines == {
  [startBus |-> 1, endBus |-> 2,
   functions |-> (<<0, 0, 0>> :> Other("with MSI", TRUE)) @@ (<<0, 0, 1>> :> Other("without MSI", FALSE))
                 @@ (<<0, 1, 0>> :> Other("none", TRUE)) @@ (<<0, 1, 2>> :> Other("none", FALSE))
                 @@ (<<1, 0, 0>> :> Ahci("with MSI")),
   ports |-> (<<1, 0, 0>> :> <<"SATA", "SATAPI", "other">>),
   broken |-> {}],
  [startBus |-> 0, endBus |-> 0,
   functions |-> (<<0, 0, 0>> :> Ahci("with MSI")) @@ (<<0, 1, 0>> :> Ahci("with MSI")),
   ports |-> (<<0, 0, 0>> :> <<"SATAPI", "none", "none">>)
             @@ (<<0, 1, 0>> :> <<"SATAPI", "none", "none">>),
   broken |-> {"cpu 2"}],
  [startBus |-> 0, endBus |-> 0,
   functions |-> (<<0, 0, 0>> :> Ahci("with MSI")) @@ (<<0, 1, 0>> :> Ahci("without MSI")),
   ports |-> (<<0, 0, 0>> :> <<"none", "SATAPI", "SATA">>) @@ (<<0, 1, 0>> :> <<"none", "none", "none">>),
   broken |-> {}]}

MCCpu == <<"cpu 0", "cpu 1", "cpu 2">>

MCDisk == [root |-> <<"boot">>, boot |-> <<"id.root-fs", "stage1">>,
           stage1 |-> <<"apu.bin", "stage2.bin">>]

MCSize == ("id.root-fs" :> 1) @@ ("apu.bin" :> 2) @@ ("stage2.bin" :> 2)

MCRootFile == [op |-> "open", parts |-> <<"boot", "id.root-fs">>, slash |-> FALSE,
               valid |-> TRUE, create |-> FALSE]

MCApuFile == [op |-> "open", parts |-> <<"boot", "stage1", "apu.bin">>, slash |-> FALSE,
              valid |-> TRUE, create |-> FALSE]

=============================================================================
