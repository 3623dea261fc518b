CONSTANTS
    Letters = {"a"}
    MaxKeys = 5
    Width = 2
    Height = 3
    Printable = {"a", "A", ">", "#"}
    Control = {"0x07", "0x08"}
    Upper <- Capitals
    Outputs <- Samples
    Cells <- Corners
SPECIFICATION Spec
INVARIANTS ShowsLastRows LineFidelity  ScreenShowsLine
PROPERTIES KeysAreTaken
