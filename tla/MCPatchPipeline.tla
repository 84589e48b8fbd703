---------------------------- MODULE MCPatchPipeline ----------------------------
\* Three patches of three files, or of two (two patches in one file); two profiles;
\* one path the base configuration has and one it has not.
EXTENDS PatchPipeline

MCFileMaps == {<<1, 2, 3>>, <<2, 2, 1>>}
MCStemMaps == {<<1, 2, 3>>, <<1, 1, 3>>}
MCGroupNames == <<"a", "b">>
MCKeyOf == <<"dns", "tun", "dns">>
MCBaseConfig == [k \in {"dns"} |-> <<>>]
=================================================================================
