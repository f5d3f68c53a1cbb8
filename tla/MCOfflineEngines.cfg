SPECIFICATION FairSpec
CONSTANT Volumes <- MCVolumes
INVARIANTS TypeOK Accounts RecoveryDecides Packed NoNewFragments 
PROPERTIES Relocates Ends
