CONSTANTS
  RamNames = {"fpga_ram", "paramod_fpga_ram"}
  Parameterised = {"paramod_fpga_ram"}
  EndStyles = {FALSE, TRUE}
  MaxFunctions = 2
  Annotable = {"split_tag_array_ext", "split_data_arrays_0_ext", "split_btb_0_ext", "split_ebtb_ext", "split_other_ext"}
SPECIFICATION Spec
INVARIANT FunctionsRemoved
CHECK_DEADLOCK FALSE
