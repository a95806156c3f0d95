---------------------------- MODULE MCPassthrough ----------------------------
(* Passthrough on a host with a GPU and its audio function in one slot, a   *)
(* second GPU and an NVMe drive.                                           *)
EXTENDS Passthrough, TLC

Gpu == 1
Audio == 2
Gpu2 == 3
Nvme == 4

MCFunction == {Gpu, Audio, Gpu2, Nvme}
MCDisplay == {Gpu, Gpu2}
MCSlotOf == (Gpu :> 1) @@ (Audio :> 1) @@ (Gpu2 :> 2) @@ (Nvme :> 3)

\* The lists: nothing, one device, a whole slot, a part of it, the second GPU
\* misfiled, a function listed twice, and one device more than there are slots.
Lists ==
    {[gpu |-> g, other |-> o] :
        g \in {{}, {Gpu}, {Gpu, Audio}}, o \in {{}, {Nvme}, {Gpu2}}}
      \union {[gpu |-> {Gpu}, other |-> {Audio, Nvme}], [gpu |-> {Gpu, Audio}, other |-> {Audio}],
              [gpu |-> {Gpu, Audio}, other |-> {Gpu2, Nvme}]}

\* Under Enforce each flag alone, all and none, with each default level; the
\* other modes look at no flag.
Flags == {<<TRUE, TRUE, TRUE>>, <<TRUE, FALSE, FALSE>>, <<FALSE, TRUE, FALSE>>,
          <<FALSE, FALSE, TRUE>>, <<FALSE, FALSE, FALSE>>}
Policy(m, l, x) ==
    [mode |-> m, default |-> l, exclusive |-> x[1], multifunction |-> x[2], critical |-> x[3]]
Policies ==
    {Policy("enforce", l, x) : l \in Levels \ {"default"}, x \in Flags}
      \union {Policy(m, "dedicated", <<TRUE, TRUE, TRUE>>) : m \in {"audit", "disabled"}}

\* What varies of the rest: a level for the drive, and whether it is optional.
Rest ==
    {[optional |-> o, level |-> [f \in MCFunction |-> IF f = Nvme THEN l ELSE "default"],
      single |-> TRUE, node |-> 1, override |-> << >>, spice |-> FALSE] :
        o \in {{}, {Nvme}}, l \in {"default", "dedicated", "forbidden"}}

Plain == [optional |-> {}, level |-> [f \in MCFunction |-> "default"], single |-> FALSE,
          node |-> NoNode, override |-> << >>, spice |-> TRUE]

PolicyConfig == {l @@ p @@ r : l \in Lists, p \in Policies, r \in Rest}

\* Overrides: none, one, two, a clash, out of range, of a device not listed.
Overrides == {<< >>, Gpu :> 2, Nvme :> 0, (Gpu :> 1) @@ (Nvme :> 3), (Gpu :> 2) @@ (Nvme :> 2),
              Gpu :> 4, Gpu2 :> 1}
PortConfig ==
    {l @@ Policy("disabled", "dedicated", <<TRUE, TRUE, TRUE>>)
       @@ [Plain EXCEPT !.override = o, !.spice = b, !.single = b] :
        l \in Lists, o \in Overrides, b \in BOOLEAN}
MCConfig == PolicyConfig \union PortConfig

\* Every function in a group of its own, the GPU slot with the drive, the two GPUs
\* together, or one without a group.
Groupings == {<<1, 1, 2, 3>>, <<1, 1, 2, 1>>, <<1, 2, 1, 3>>, <<1, 1, 2, 0>>}
Drivings == {<<"vfio", "other", "gpu", "other">>, <<"vfio", "none", "vfio", "other">>,
             <<"gpu", "other", "absent", "vfio">>, <<"vfio", "other", "none", "absent">>}
MCHost == {[group |-> g, node |-> <<0, -1, 1, n>>, driver |-> d] :
             g \in Groupings, d \in Drivings, n \in {0, 1}}

=============================================================================
