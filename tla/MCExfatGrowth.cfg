SPECIFICATION Spec
CONSTANT Volumes <- MCGrowth
INVARIANT OverlapSafe
